---- MODULE Spec2Model ----
(***************************************************************************)
(* Verification model of the MuJoCo model compiler (mjCModel):             *)
(*   src/src/user/user_model.cc   and   src/src/user/user_objects.cc       *)
(*                                                                         *)
(* SpecDriver : the compile driver (mjCModel::Compile / TryCompile) as a   *)
(*              step machine with the runtime allocations, the error trap  *)
(*              and the length-range worker threads.                       *)
(* Spec       : the life of a model specification: entities are added,     *)
(*              the spec is compiled (whole call), looked up by name and   *)
(*              copied back from a runtime model.                          *)
(* SpecTree   : specifications with a kinematic tree (bodies, joints,      *)
(*              geoms, contact pairs, excludes, frames) that are compiled, *)
(*              corrected after a failure and compiled again.              *)
(***************************************************************************)
EXTENDS Integers, Sequences, FiniteSets, TLC

\* ------------------------------------------------------------------------
\* Bounds of the exploration
\* ------------------------------------------------------------------------
MaxNu == 3          \* largest number of actuators of a compiled model
MaxProc == 34       \* largest value returned by getnumproc()
MaxCompile == 2     \* calls of Compile on one specification
MaxCopyBack == 1    \* calls of CopyBack on one specification
MaxLateAdd == 1     \* objects added after the first call of Compile
MaxEdit == 1        \* fields set after a failed call of Compile

\* ------------------------------------------------------------------------
\* Program constants
\* ------------------------------------------------------------------------
MaxThread == 16     \* mjMIN(16, getnumproc()/2)

NULL == 0           \* nullptr

\* handler identities held by the engine's thread-local handler slots
Handlers == {"none", "user"}

VARIABLES
  \* ---- compile driver ----
  pc,            \* position of the calling thread inside Compile/TryCompile
  m, d,          \* the locals mjModel* m and mjData* data of Compile
  released,      \* runtime object allocated in this call -> times released
  exc,           \* the mjCError in flight between throw and catch
  tls_error,     \* engine error handler in effect on the calling thread
  tls_warning,   \* engine warning handler in effect on the calling thread
  save_error,    \* local save_error of Compile
  save_warning,  \* local save_warning of Compile
  pre_error,     \* handlers in effect when Compile was called
  pre_warning,
  ret,           \* what the last call of Compile returned
  errInfo,       \* mjCModel::errInfo
  compiled,      \* mjCModel::compiled
  engineErr,     \* thread on which the engine raised mju_error in this call
  \* ---- length range ----
  nu,            \* m->nu
  LRmode,        \* LRopt.mode
  useexisting,   \* LRopt.useexisting
  nthread,       \* local nthread of LengthRange
  lrfail,        \* actuators for which the bounded simulation does not converge
  lengthrange,   \* m->actuator_lengthrange, one pair per actuator
  lrpath,        \* which branch of LengthRange ran
  lri,           \* loop index of the single-threaded branch
  num,           \* actuators per thread
  wnext,         \* worker -> loop index i of LRfunc, or -1 when returned
  werr,          \* worker -> actuator whose error text is in err[w], or -1
  pdata,         \* worker -> its mjData
  handled,       \* actuators for which mj_setLengthRange was called
  \* ---- the specification (mjCModel and its objects) ----
  heap,          \* address -> object (mjCBody, mjCGeom, ...), freed ones too
  freed,         \* addresses whose object was deleted
  bodies, joints, geoms, meshes, materials, tuples, frames, keys,
  pairs, excludes,
                 \* the object lists of mjCModel
  ids,           \* mjCModel::ids: kind -> (name -> id)
  sz,            \* the size counters of mjCModel (nbody, njnt, ...)
  opts,          \* compiler options fusestatic and discardvisual
  model,         \* the mjModel returned by the last successful Compile
  prev,          \* the model before the last Compile and what was done since
  since,         \* what was done to the spec since the last Compile
  userSpec,      \* address -> what the user added (parent and fields; in
                 \* SpecTree the whole object as the user built it)
  last,          \* the last call and its outcome
  calls          \* number of calls made so far, by kind

driverVars == <<pc, m, d, released, exc, tls_error, tls_warning,
                save_error, save_warning, pre_error, pre_warning, ret,
                errInfo, compiled, engineErr>>
lrVars == <<nu, LRmode, useexisting, nthread, lrfail, lengthrange, lrpath,
            lri, num, wnext, werr, pdata, handled>>
storeVars == <<heap, freed, bodies, joints, geoms, meshes, materials, tuples,
               frames, keys, pairs, excludes, ids, sz, opts, model, prev,
               since, userSpec, last, calls>>
vars == <<driverVars, lrVars, storeVars>>

Workers == 0 .. (MaxThread - 1)

\* ------------------------------------------------------------------------
\* Runtime allocations (mj_makeModel, mj_makeRawData, mj_makeData and the
\* matching mj_deleteModel, mj_deleteData)
\* ------------------------------------------------------------------------

\* mj_deleteModel(p) / mj_deleteData(p): no effect on a null pointer
Release(rel, p) == IF p = NULL THEN rel ELSE [rel EXCEPT ![p] = @ + 1]

\* the object returned by the next successful mj_make* call
Fresh(rel) == Len(rel) + 1

\* a fresh object enters the bookkeeping with zero releases
Allocate(rel) == Append(rel, 0)

NoError == [msg |-> "", act |-> -1]

\* a return path that forgets the restore leaves the slot as it is
RestoreHandler_forgotten(tls, saved) == tls

\* _mjPRIVATE__set_tls_error_fn(save_error) on the calling thread
RestoreHandler(tls, saved) == saved

InitDriver ==
  /\ pc = "idle"
  /\ m = NULL /\ d = NULL
  /\ released = <<>>
  /\ exc = NoError
  /\ tls_error = "none"
  /\ tls_warning = "none"
  /\ save_error = "none" /\ save_warning = "none"
  /\ pre_error = "none" /\ pre_warning = "none"
  /\ ret = "none"
  /\ errInfo = NoError
  /\ compiled = FALSE
  /\ engineErr = "none"

InitLR ==
  /\ nu = 0
  /\ LRmode = "none"
  /\ useexisting = FALSE
  /\ nthread = 0
  /\ lrfail = {}
  /\ lengthrange = <<>>
  /\ lrpath = "none"
  /\ lri = 0
  /\ num = 0
  /\ wnext = [w \in Workers |-> -1]
  /\ werr = [w \in Workers |-> -1]
  /\ pdata = [w \in Workers |-> NULL]
  /\ handled = {}

\* the locals of LengthRange go out of scope
LRReturn ==
  /\ nu' = 0
  /\ LRmode' = "none"
  /\ useexisting' = FALSE
  /\ nthread' = 0
  /\ lrfail' = {}
  /\ lengthrange' = <<>>
  /\ lrpath' = "none"
  /\ lri' = 0
  /\ num' = 0
  /\ wnext' = [w \in Workers |-> -1]
  /\ werr' = [w \in Workers |-> -1]
  /\ pdata' = [w \in Workers |-> NULL]
  /\ handled' = {}

\* Compile, lines 2739-2773: locals, save and install the handlers
CompileBegin(e, w) ==
  /\ pc = "idle"
  /\ pre_error' = e /\ pre_warning' = w
  /\ m' = NULL /\ d' = NULL
  /\ released' = <<>>
  /\ exc' = NoError
  /\ save_error' = e
  /\ save_warning' = w
  /\ tls_error' = "errorhandler"
  /\ tls_warning' = "warninghandler"
  /\ errInfo' = NoError
  /\ engineErr' = "none"
  /\ ret' = "none"
  /\ pc' = "checks"
  /\ UNCHANGED <<compiled, lrVars>>
  /\ UNCHANGED storeVars

\* ------------------------------------------------------------------------
\* The engine's error signal (mju_error) and the trap of Compile
\* ------------------------------------------------------------------------

\* handler slot of a thread started by pthread_create: never assigned
WorkerHandler == "none"

\* mju_error(msg) on a thread whose handler slot holds h:
\* errorhandler copies the text and longjmps to the setjmp of Compile;
\* with no handler in the slot the engine prints the text and exits.
MjuError(h) == IF h = "errorhandler" THEN "longjmp" ELSE "exit"

\* positions of TryCompile at which a subcall of the engine runs on the
\* calling thread: plugin checks, mj_setConst, mj_setLengthRange, mj_step
EnginePcs == {"copy", "setconst", "lr_single", "step"}

\* throw mjCError(...) inside the try block of Compile
Throw(msg, act) ==
  /\ exc' = [msg |-> msg, act |-> act]
  /\ pc' = "catch"

\* mju_error raised on the calling thread while TryCompile runs
EngineErrorMain ==
  /\ pc \in EnginePcs
  /\ engineErr' = "main"
  /\ IF MjuError(tls_error) = "longjmp"
       THEN Throw("engine error", -1)
       ELSE pc' = "terminated" /\ exc' = exc
  /\ UNCHANGED <<m, d, released, tls_error, tls_warning, save_error,
                 save_warning, pre_error, pre_warning, ret, errInfo,
                 compiled, lrVars>>
  /\ UNCHANGED storeVars

\* ------------------------------------------------------------------------
\* TryCompile, step by step
\* ------------------------------------------------------------------------

\* lines 2808-3017: every phase that runs before the runtime model exists;
\* each of them can throw mjCError
TryChecks(ok) ==
  /\ pc = "checks"
  /\ IF ok THEN pc' = "makemodel" /\ exc' = exc
           ELSE Throw("compile error", -1)
  /\ UNCHANGED <<m, d, released, tls_error, tls_warning, save_error,
                 save_warning, pre_error, pre_warning, ret, errInfo,
                 compiled, engineErr, lrVars>>
  /\ UNCHANGED storeVars

\* lines 3020-3030: m = mj_makeModel(...); throw if it returned null
TryMakeModel(ok) ==
  /\ pc = "makemodel"
  /\ IF ok
       THEN /\ m' = Fresh(released)
            /\ released' = Allocate(released)
            /\ pc' = "copy" /\ exc' = exc
       ELSE /\ Throw("could not create mjModel", -1)
            /\ UNCHANGED <<m, released>>
  /\ UNCHANGED <<d, tls_error, tls_warning, save_error, save_warning,
                 pre_error, pre_warning, ret, errInfo, compiled, engineErr,
                 lrVars>>
  /\ UNCHANGED storeVars

\* lines 3033-3178: CopyNames, CopyPaths, CopyTree, plugins, keyframes,
\* CopyObjects; CopyTree and the key compilation can throw mjCError
TryCopy(ok) ==
  /\ pc = "copy"
  /\ IF ok THEN pc' = "rawdata" /\ exc' = exc
           ELSE Throw("compile error", -1)
  /\ UNCHANGED <<m, d, released, tls_error, tls_warning, save_error,
                 save_warning, pre_error, pre_warning, ret, errInfo,
                 compiled, engineErr, lrVars>>
  /\ UNCHANGED storeVars

\* lines 3181-3191: d = mj_makeRawData(m); on null the model is deleted
\* here and the error is thrown
TryMakeRawData(ok) ==
  /\ pc = "rawdata"
  /\ IF ok
       THEN /\ d' = Fresh(released)
            /\ released' = Allocate(released)
            /\ pc' = "setconst" /\ exc' = exc
       ELSE /\ released' = Release(released, m)
            /\ d' = NULL
            /\ Throw("could not create mjData", -1)
  /\ UNCHANGED <<m, tls_error, tls_warning, save_error, save_warning,
                 pre_error, pre_warning, ret, errInfo, compiled, engineErr,
                 lrVars>>
  /\ UNCHANGED storeVars

\* lines 3194-3197: mj_setConst, AutoSpringDamper
TrySetConst ==
  /\ pc = "setconst"
  /\ pc' = "lr"
  /\ UNCHANGED <<m, d, released, exc, tls_error, tls_warning, save_error,
                 save_warning, pre_error, pre_warning, ret, errInfo,
                 compiled, engineErr, lrVars>>
  /\ UNCHANGED storeVars

\* lines 3203-3222: statistics, sizes check; on a validation error the
\* data and the model are deleted here and the error is thrown
TryValidate(ok) ==
  /\ pc = "validate"
  /\ IF ok
       THEN /\ pc' = "remake" /\ exc' = exc
            /\ UNCHANGED released
       ELSE /\ released' = Release(Release(released, d), m)
            /\ Throw("validation error", -1)
  /\ LRReturn
  /\ UNCHANGED <<m, d, tls_error, tls_warning, save_error, save_warning,
                 pre_error, pre_warning, ret, errInfo, compiled, engineErr>>
  /\ UNCHANGED storeVars

\* lines 3225-3231: delete the partial data, make the final one; on null
\* the model is deleted here and the error is thrown
TryRemakeData(ok) ==
  /\ pc = "remake"
  /\ IF ok
       THEN /\ d' = Fresh(released)
            /\ released' = Allocate(Release(released, d))
            /\ pc' = "step" /\ exc' = exc
       ELSE /\ d' = NULL
            /\ released' = Release(Release(released, d), m)
            /\ Throw("could not create mjData", -1)
  /\ UNCHANGED <<m, tls_error, tls_warning, save_error, save_warning,
                 pre_error, pre_warning, ret, errInfo, compiled, engineErr,
                 lrVars>>
  /\ UNCHANGED storeVars

\* line 3234: mj_step(m, d)
TryStep ==
  /\ pc = "step"
  /\ pc' = "finish"
  /\ UNCHANGED <<m, d, released, exc, tls_error, tls_warning, save_error,
                 save_warning, pre_error, pre_warning, ret, errInfo,
                 compiled, engineErr, lrVars>>
  /\ UNCHANGED storeVars

\* lines 3237-3245: delete the data, null the pointer, pass warnings back
TryFinish ==
  /\ pc = "finish"
  /\ released' = Release(released, d)
  /\ d' = NULL
  /\ pc' = "return"
  /\ UNCHANGED <<m, exc, tls_error, tls_warning, save_error, save_warning,
                 pre_error, pre_warning, ret, errInfo, compiled, engineErr,
                 lrVars>>
  /\ UNCHANGED storeVars

\* Compile, lines 2777-2783: an exception that is not an mjCError (the
\* std::bad_alloc of a vector or string that grows while the lists are
\* built or copied) matches no catch clause of Compile and leaves it
Unwind ==
  /\ pc \in {"checks", "copy"}
  /\ exc' = [msg |-> "std::bad_alloc", act |-> -1]
  /\ pc' = "unwound"
  /\ UNCHANGED <<m, d, released, tls_error, tls_warning, save_error,
                 save_warning, pre_error, pre_warning, ret, errInfo,
                 compiled, engineErr, lrVars>>
  /\ UNCHANGED storeVars

\* Compile, lines 2783-2798: the catch block
CompileCatch ==
  /\ pc = "catch"
  /\ released' = Release(Release(released, m), d)
  /\ errInfo' = exc
  /\ tls_error' = RestoreHandler(tls_error, save_error)
  /\ tls_warning' = RestoreHandler(tls_warning, save_warning)
  /\ ret' = "failure"
  /\ compiled' = FALSE
  /\ pc' = "idle"
  /\ LRReturn
  /\ UNCHANGED <<m, d, exc, save_error, save_warning, pre_error,
                 pre_warning, engineErr>>
  /\ UNCHANGED storeVars

\* Compile, lines 2800-2804: the normal return
CompileReturn ==
  /\ pc = "return"
  /\ tls_error' = RestoreHandler(tls_error, save_error)
  /\ tls_warning' = RestoreHandler(tls_warning, save_warning)
  /\ compiled' = TRUE
  /\ ret' = "model"
  /\ pc' = "idle"
  /\ UNCHANGED <<m, d, released, exc, errInfo, save_error, save_warning,
                 pre_error, pre_warning, engineErr, lrVars>>
  /\ UNCHANGED storeVars

\* ------------------------------------------------------------------------
\* Length range (LRfunc, mjCModel::LengthRange)
\* ------------------------------------------------------------------------

Min(a, b) == IF a < b THEN a ELSE b

LRModes == {"none", "muscle", "muscleuser", "all"}

\* gain/bias type of actuator i of the compiled model
ActType(i) == IF i % 3 = 0 THEN "muscle" ELSE IF i % 3 = 1 THEN "user" ELSE "plain"

\* actuator_lengthrange of actuator i as CopyTree wrote it: the odd
\* actuators come with a valid range given by the user
InitRange(i) == IF i % 2 = 1 THEN <<0, 1>> ELSE <<0, 0>>

\* the range the bounded simulation finds for actuator i
SimRange(i) == <<i + 1, 2 * i + 3>>

\* the skip test, lines 1206-1220 (mj_setLengthRange applies the same test)
LRSkip(mode, ue, lr, i) ==
  \/ mode = "none"
  \/ mode = "muscle" /\ ActType(i) # "muscle"
  \/ mode = "muscleuser" /\ ActType(i) = "plain"
  \/ ue /\ lr[i + 1][1] < lr[i + 1][2]

\* cnt of lines 1203-1224
LRCount(mode, ue, lr, n) ==
  Cardinality({i \in 0 .. (n - 1) : ~LRSkip(mode, ue, lr, i)})

\* the slice size without the rounding loop
NumPerThread_floor(n, nt) == n \div nt

\* num of lines 1246-1249: nu / nthread rounded up
NumPerThread(n, nt) == IF (n \div nt) * nt < n THEN (n \div nt) + 1 ELSE n \div nt

\* mj_setLengthRange(m, data, i, ...): success flag and the new array
MjSetLengthRange(mode, ue, fail, lr, i) ==
  IF LRSkip(mode, ue, lr, i) THEN [ok |-> TRUE, lr |-> lr]
  ELSE IF i \in fail THEN [ok |-> FALSE, lr |-> lr]
  ELSE [ok |-> TRUE, lr |-> [lr EXCEPT ![i + 1] = SimRange(i)]]

\* the single-threaded branch run to its end, lines 1229-1233
RECURSIVE LRSingleLoop(_, _, _, _, _, _, _)
LRSingleLoop(mode, ue, fail, lr, n, i, h) ==
  IF i >= n THEN [ok |-> TRUE, lr |-> lr, handled |-> h]
  ELSE LET r == MjSetLengthRange(mode, ue, fail, lr, i)
       IN IF r.ok THEN LRSingleLoop(mode, ue, fail, r.lr, n, i + 1, h \cup {i})
                  ELSE [ok |-> FALSE, lr |-> r.lr, handled |-> h \cup {i}]

\* lines 1190-1224 and the branch of line 1227; in the multi-threaded
\* branch also lines 1237-1278: one mjData per thread, the slices, launch
LRBegin(n, mode, ue, usethread, nproc, fail) ==
  /\ pc = "lr"
  /\ nu' = n /\ LRmode' = mode /\ useexisting' = ue /\ lrfail' = fail
  /\ lengthrange' = [i \in 1 .. n |-> InitRange(i - 1)]
  /\ nthread' = Min(MaxThread, nproc \div 2)
  /\ handled' = {}
  /\ lri' = 0
  /\ IF ~usethread \/ LRCount(mode, ue, lengthrange', n) < 2 \/ nthread' < 2
       THEN /\ lrpath' = "single"
            /\ pc' = "lr_single"
            /\ num' = 0
            /\ UNCHANGED <<released, wnext, werr, pdata>>
       ELSE /\ lrpath' = "multi"
            /\ pc' = "lr_join"
            /\ num' = NumPerThread(n, nthread')
            /\ pdata' = [w \in Workers |->
                           IF w = 0 THEN d
                           ELSE IF w < nthread' THEN Len(released) + w
                           ELSE NULL]
            /\ released' = released \o [k \in 1 .. (nthread' - 1) |-> 0]
            /\ werr' = [w \in Workers |-> -1]
            /\ wnext' = [w \in Workers |->
                           IF w < nthread' /\ w * num' < n /\ num' > 0
                             THEN w * num' ELSE -1]
  /\ UNCHANGED <<m, d, exc, tls_error, tls_warning, save_error, save_warning,
                 pre_error, pre_warning, ret, errInfo, compiled, engineErr>>
  /\ UNCHANGED storeVars

\* lines 1229-1233: one iteration of the single-threaded loop
LRSingleStep ==
  /\ pc = "lr_single"
  /\ lri < nu
  /\ LET r == MjSetLengthRange(LRmode, useexisting, lrfail, lengthrange, lri)
     IN /\ handled' = handled \cup {lri}
        /\ lengthrange' = r.lr
        /\ IF r.ok THEN lri' = lri + 1 /\ UNCHANGED <<pc, exc>>
                   ELSE lri' = lri /\ Throw("length range error", lri)
  /\ UNCHANGED <<m, d, released, tls_error, tls_warning, save_error,
                 save_warning, pre_error, pre_warning, ret, errInfo, compiled,
                 engineErr, nu, LRmode, useexisting, nthread, lrfail, lrpath,
                 num, wnext, werr, pdata>>
  /\ UNCHANGED storeVars

\* lines 1299-1300: the loop is over, options are restored
LRSingleEnd ==
  /\ pc = "lr_single"
  /\ lri >= nu
  /\ pc' = "validate"
  /\ UNCHANGED <<m, d, released, exc, tls_error, tls_warning, save_error,
                 save_warning, pre_error, pre_warning, ret, errInfo, compiled,
                 engineErr, lrVars>>
  /\ UNCHANGED storeVars

\* LRfunc, lines 1177-1183: thread w calls mj_setLengthRange for its
\* next actuator; it returns on failure and at the end of its slice
LRfunc(w) ==
  /\ pc = "lr_join"
  /\ wnext[w] >= 0
  /\ LET i == wnext[w]
         r == MjSetLengthRange(LRmode, useexisting, lrfail, lengthrange, i)
     IN /\ handled' = handled \cup {i}
        /\ lengthrange' = r.lr
        /\ werr' = IF r.ok THEN werr ELSE [werr EXCEPT ![w] = i]
        /\ wnext' = [wnext EXCEPT ![w] =
                       IF r.ok /\ i + 1 < w * num + num /\ i + 1 < nu
                         THEN i + 1 ELSE -1]
  /\ UNCHANGED <<driverVars, nu, LRmode, useexisting, nthread, lrfail, lrpath,
                 lri, num, pdata>>
  /\ UNCHANGED storeVars

\* mju_error raised inside mj_setLengthRange on worker thread w
EngineErrorWorker(w) ==
  /\ pc = "lr_join"
  /\ wnext[w] >= 0
  /\ engineErr' = "worker"
  /\ IF MjuError(WorkerHandler) = "longjmp"
       THEN Throw("engine error", -1)
       ELSE pc' = "terminated" /\ exc' = exc
  /\ UNCHANGED <<m, d, released, tls_error, tls_warning, save_error,
                 save_warning, pre_error, pre_warning, ret, errInfo,
                 compiled, lrVars>>
  /\ UNCHANGED storeVars

\* a loop that waits for the first thread only
Joined_first(wn, nt) == wn[0] = -1

\* lines 1281-1283: pthread_join(th[i]) for every i < nthread returns when
\* thread i has returned from LRfunc
Joined(wn, nt) == \A w \in 0 .. (nt - 1) : wn[w] = -1

\* a report loop that keeps the last error instead of the first
FirstError_last(we, nt) ==
  LET w0 == CHOOSE w \in 0 .. (nt - 1) :
              /\ we[w] # -1
              /\ \A v \in (w + 1) .. (nt - 1) : we[v] = -1
  IN we[w0]

\* lines 1292-1296: the text of the first non-empty err[i], i ascending
FirstError(we, nt) ==
  LET w0 == CHOOSE w \in 0 .. (nt - 1) :
              /\ we[w] # -1
              /\ \A v \in 0 .. (w - 1) : we[v] = -1
  IN we[w0]

\* lines 1281-1300: all threads joined, their mjData freed, the first
\* error in thread order is thrown
LRJoin ==
  /\ pc = "lr_join"
  /\ Joined(wnext, nthread)
  /\ released' = [o \in 1 .. Len(released) |->
                    IF \E w \in 1 .. (nthread - 1) : pdata[w] = o
                      THEN released[o] + 1 ELSE released[o]]
  /\ IF \E w \in 0 .. (nthread - 1) : werr[w] # -1
       THEN Throw("length range error", FirstError(werr, nthread))
       ELSE pc' = "validate" /\ exc' = exc
  /\ UNCHANGED <<m, d, tls_error, tls_warning, save_error, save_warning,
                 pre_error, pre_warning, ret, errInfo, compiled, engineErr,
                 lrVars>>
  /\ UNCHANGED storeVars

\* ------------------------------------------------------------------------
\* The specification: objects, lists, names
\* ------------------------------------------------------------------------

\* address of the world body, created by the constructor of mjCModel
World == 1

\* a pointer read outside a vector or from freed memory
Wild == NULL - 1

\* an object as the constructors leave it (mjCBase: id = -1)
Obj(kind, name, body) ==
  [kind |-> kind, name |-> name, id |-> -1, body |-> body,
   bodies |-> <<>>, geoms |-> <<>>, joints |-> <<>>, frames |-> <<>>,
   spec_pos |-> 0, pos |-> 0, parentid |-> -1, weldid |-> -1,
   contype |-> 0, visual |-> FALSE, material |-> "", meshname |-> "",
   mesh |-> NULL, matid |-> -1,
   objtype |-> <<>>, objname |-> <<>>, obj |-> <<>>,
   type |-> "", dofnum |-> 0, lastdof |-> -1, subtreedofs |-> 0,
   spec_mass |-> 0, spec_ipos |-> 0, mass |-> 0, ipos |-> 0,
   name1 |-> "", name2 |-> "", geom1 |-> NULL, geom2 |-> NULL,
   body1 |-> -1, body2 |-> -1, signature |-> -1,
   nbvh |-> 0, bvleaf |-> <<>>, mocap |-> FALSE, axisnz |-> 1]

\* the entities a user adds, each at its own address:
\*   body b1 under the world, body b2 under b1, a joint on b2,
\*   a colliding geom on b1 with mesh mc, the mesh mc,
\*   a tuple naming body b1, a named frame on b1, a keyframe
Catalog ==
  [a \in 2 .. 9 |->
     CASE a = 2 -> [Obj("body", "b1", World) EXCEPT !.spec_pos = 1]
       [] a = 3 -> [Obj("body", "b2", 2) EXCEPT !.spec_pos = 1]
       [] a = 4 -> [Obj("joint", "j", 3) EXCEPT !.type = "hinge"]
       [] a = 5 -> [Obj("geom", "gc", 2) EXCEPT !.contype = 1,
                      !.meshname = "mc"]
       [] a = 6 -> [Obj("mesh", "mc", NULL) EXCEPT !.visual = TRUE]
       [] a = 7 -> [Obj("tuple", "t", NULL) EXCEPT !.objtype = <<"body">>,
                      !.objname = <<"b1">>]
       [] a = 8 -> Obj("frame", "f", 2)
       [] OTHER -> Obj("key", "k", NULL)]

\* the kinds that have an object list and an id map in mjCModel
Kinds == {"body", "joint", "geom", "mesh", "material", "pair", "exclude",
          "tuple", "key"}

\* the kinds whose lists are rebuilt from the tree by MakeLists
TreeKinds == {"body", "joint", "geom", "frame"}

Names == {"world"} \cup {Catalog[a].name : a \in DOMAIN Catalog}

\* strlen(name)
NameLen(n) == IF n \in {"world"} THEN 5
              ELSE IF n = "" THEN 0
              ELSE IF n \in {"j", "t", "f", "k"} THEN 1 ELSE 2

\* the names in use in the order of std::sort on strings
NameOrder ==
  <<"b1", "b2", "b3", "b4", "f", "g1", "g2", "g3", "g4", "gc", "j", "j1",
    "j2", "j3", "j4", "j5", "j6", "j7", "k", "mc", "t", "world">>

EmptyIds == [k \in Kinds |-> <<>>]

NoSizes == [nbody |-> 0, njnt |-> 0, ngeom |-> 0, nmesh |-> 0, nmat |-> 0,
            ntuple |-> 0, ntupledata |-> 0, nkey |-> 0, nnames |-> 0,
            nq |-> 0, nv |-> 0, nM |-> 0, nD |-> 0, npair |-> 0,
            nexclude |-> 0, nbvhstatic |-> 0]

\* "no model": what Compile returns on failure
NoModel == [valid |-> FALSE]

\* the part of an object that the user specified
UserPart(o) ==
  [kind |-> o.kind, name |-> o.name, body |-> o.body, spec_pos |-> o.spec_pos,
   contype |-> o.contype, material |-> o.material, meshname |-> o.meshname,
   objtype |-> o.objtype, objname |-> o.objname]

\* mjCModel::mjCModel, lines 126-136: the world body
WorldBody ==
  [Obj("body", "world", NULL) EXCEPT !.id = 0, !.parentid = 0, !.weldid = 0]

\* mjCModel::mjCModel, lines 85-173: the world body alone, nothing compiled
InitStore ==
  /\ heap = (World :> WorldBody)
  /\ freed = {}
  /\ bodies = <<World>>
  /\ joints = <<>> /\ geoms = <<>> /\ meshes = <<>> /\ materials = <<>>
  /\ tuples = <<>> /\ frames = <<>> /\ keys = <<>>
  /\ pairs = <<>> /\ excludes = <<>>
  /\ ids = EmptyIds
  /\ sz = NoSizes
  /\ opts \in [fusestatic : BOOLEAN, discardvisual : BOOLEAN]
  /\ model = NoModel
  /\ prev = [model |-> NoModel, since |-> "touched"]
  /\ since = "touched"
  /\ userSpec = <<>>
  /\ last = [op |-> "none", ok |-> FALSE, ub |-> FALSE, envfail |-> FALSE,
             precond |-> FALSE, changed |-> FALSE]
  /\ calls = [compile |-> 0, copyback |-> 0, late |-> 0, edit |-> 0]

\* the object lists and maps of mjCModel gathered in one record, so that
\* the phases of the compiler can be written as functions of it
Store ==
  [heap |-> heap, freed |-> freed, bodies |-> bodies, joints |-> joints,
   geoms |-> geoms, meshes |-> meshes, materials |-> materials,
   tuples |-> tuples, frames |-> frames, keys |-> keys, pairs |-> pairs,
   excludes |-> excludes, ids |-> ids,
   sz |-> sz, compiled |-> compiled, err |-> "", ub |-> FALSE,
   oobnull |-> FALSE, wildid |-> 0, dof_parentid |-> <<>>, dof_Madr |-> <<>>,
   body_simple |-> <<>>]

SetStore(st) ==
  /\ heap' = st.heap /\ freed' = st.freed /\ bodies' = st.bodies
  /\ joints' = st.joints /\ geoms' = st.geoms /\ meshes' = st.meshes
  /\ materials' = st.materials /\ tuples' = st.tuples /\ frames' = st.frames
  /\ keys' = st.keys /\ pairs' = st.pairs /\ excludes' = st.excludes
  /\ ids' = st.ids /\ sz' = st.sz
  /\ compiled' = st.compiled

\* object_lists[type], lines 141-168
ListName(kind) ==
  CASE kind = "body" -> "bodies" [] kind = "joint" -> "joints"
    [] kind = "geom" -> "geoms" [] kind = "mesh" -> "meshes"
    [] kind = "material" -> "materials" [] kind = "tuple" -> "tuples"
    [] kind = "frame" -> "frames" [] kind = "pair" -> "pairs"
    [] kind = "exclude" -> "excludes" [] OTHER -> "keys"

SeqSet(q) == {q[i] : i \in 1 .. Len(q)}

MinOf(S) == CHOOSE x \in S : \A y \in S : x <= y

\* findobject, lines 571-589: a scan while the map of the kind is empty,
\* the map afterwards; list[id->second] is read without a bounds check
findobject(st, kind, name) ==
  LET list == st[ListName(kind)]
      map == st.ids[kind]
      hits == {i \in 1 .. Len(list) : st.heap[list[i]].name = name}
  IN IF DOMAIN map = {}
       THEN [res |-> IF hits = {} THEN NULL ELSE list[MinOf(hits)],
             oob |-> FALSE]
     ELSE IF name \notin DOMAIN map THEN [res |-> NULL, oob |-> FALSE]
     ELSE IF map[name] + 1 \in 1 .. Len(list)
       THEN [res |-> list[map[name] + 1], oob |-> FALSE]
     ELSE [res |-> Wild, oob |-> TRUE]

\* mjCBody::AddBody, AddGeom, AddJoint, AddFrame (user_objects.cc 774-835):
\* the new object is appended to the list of its body, its id stays -1
AddToBody(a) ==
  /\ pc = "idle"
  /\ a \in DOMAIN Catalog /\ a \notin DOMAIN heap
  /\ calls.compile > 0 => calls.late < MaxLateAdd
  /\ calls' = IF calls.compile > 0 THEN [calls EXCEPT !.late = @ + 1]
              ELSE calls
  /\ Catalog[a].kind \in TreeKinds
  /\ Catalog[a].body \in DOMAIN heap /\ Catalog[a].body \notin freed
  /\ LET o == Catalog[a]
         f == ListName(o.kind)
     IN heap' = [x \in DOMAIN heap \cup {a} |->
                   IF x = a THEN o
                   ELSE IF x = o.body
                     THEN [heap[x] EXCEPT ![f] = Append(@, a)]
                   ELSE heap[x]]
  /\ userSpec' = (a :> UserPart(Catalog[a])) @@ userSpec
  /\ since' = "touched"
  /\ last' = [op |-> "add", ok |-> TRUE, ub |-> FALSE, envfail |-> FALSE,
              precond |-> FALSE, changed |-> FALSE]
  /\ UNCHANGED <<freed, bodies, joints, geoms, meshes, materials, tuples,
                 frames, keys, pairs, excludes, ids, sz, opts, model, prev>>
  /\ UNCHANGED <<driverVars, lrVars>>

\* mjCModel::AddObject, lines 351-357: id = list.size(), then push_back
AddObject(a) ==
  /\ pc = "idle"
  /\ a \in DOMAIN Catalog /\ a \notin DOMAIN heap
  /\ calls.compile > 0 => calls.late < MaxLateAdd
  /\ calls' = IF calls.compile > 0 THEN [calls EXCEPT !.late = @ + 1]
              ELSE calls
  /\ Catalog[a].kind \notin TreeKinds
  /\ LET o == Catalog[a]
         st == Store
         f == ListName(o.kind)
     IN SetStore([st EXCEPT
                    !.heap = (a :> [o EXCEPT !.id = Len(st[f])]) @@ st.heap,
                    ![f] = Append(@, a)])
  /\ userSpec' = (a :> UserPart(Catalog[a])) @@ userSpec
  /\ since' = "touched"
  /\ last' = [op |-> "add", ok |-> TRUE, ub |-> FALSE, envfail |-> FALSE,
              precond |-> FALSE, changed |-> FALSE]
  /\ UNCHANGED <<opts, model, prev>>
  /\ UNCHANGED <<pc, m, d, released, exc, tls_error, tls_warning, save_error,
                 save_warning, pre_error, pre_warning, ret, errInfo,
                 engineErr, lrVars>>

\* ------------------------------------------------------------------------
\* Phases of TryCompile on the specification
\* ------------------------------------------------------------------------

\* mjCModel::Clear, lines 263-344: counters, the tree lists and the
\* compiled flag; the asset lists, the frames and the id maps are kept
Clear(st) ==
  [st EXCEPT !.sz = [NoSizes EXCEPT !.ntuple = st.sz.ntuple,
                                    !.nkey = st.sz.nkey],
             !.bodies = <<>>, !.joints = <<>>, !.geoms = <<>>,
             !.compiled = FALSE]

\* bodies of the tree below b in the order of the recursion of MakeLists
RECURSIVE TreeOrder(_, _)
RECURSIVE TreeOrderOf(_, _, _)
TreeOrder(h, b) == <<b>> \o TreeOrderOf(h, h[b].bodies, 1)
TreeOrderOf(h, kids, i) ==
  IF i > Len(kids) THEN <<>>
  ELSE TreeOrder(h, kids[i]) \o TreeOrderOf(h, kids, i + 1)

\* the objects of one kind owned by the bodies bs, in order
RECURSIVE Gather(_, _, _, _)
Gather(h, bs, f, i) ==
  IF i > Len(bs) THEN <<>> ELSE h[bs[i]][f] \o Gather(h, bs, f, i + 1)

\* MakeLists, lines 627-643: appends to the lists, frames included
MakeLists(st) ==
  LET order == TreeOrder(st.heap, st.bodies[1])
  IN [st EXCEPT !.bodies = @ \o Tail(order),
                !.geoms = @ \o Gather(st.heap, order, "geoms", 1),
                !.joints = @ \o Gather(st.heap, order, "joints", 1),
                !.frames = @ \o Gather(st.heap, order, "frames", 1)]

\* the names that occur more than once in the sequence
Repeated(allnames) ==
  {allnames[i] : i \in {k \in 1 .. Len(allnames) :
                          \E l \in 1 .. Len(allnames) :
                            l # k /\ allnames[l] = allnames[k]}}

\* processlist, lines 2710-2712: std::sort, then std::adjacent_find: the
\* first repeated name in sorted order
adjacent_find(allnames) ==
  NameOrder[MinOf({k \in 1 .. Len(NameOrder) :
                     NameOrder[k] \in Repeated(allnames)})]

\* processlist, lines 2680-2719
processlist(st, kind) ==
  LET list == st[ListName(kind)]
      bad == {i \in 1 .. Len(list) :
                st.heap[list[i]].id # -1 /\ st.heap[list[i]].id # i - 1}
      n == IF kind = "frame" THEN 0
           ELSE IF bad = {} THEN Len(list) ELSE MinOf(bad) - 1
      done == {list[i] : i \in 1 .. n}
      pos(a) == MinOf({i \in 1 .. n : list[i] = a})
      named == {st.heap[list[i]].name : i \in 1 .. n}
      last_i(nm) == CHOOSE i \in 1 .. n :
                      /\ st.heap[list[i]].name = nm
                      /\ \A j \in (i + 1) .. n : st.heap[list[j]].name # nm
      h2 == [a \in DOMAIN st.heap |->
               IF a \in done THEN [st.heap[a] EXCEPT !.id = pos(a) - 1]
               ELSE st.heap[a]]
      ids2 == IF kind = "frame" THEN st.ids
              ELSE [st.ids EXCEPT ![kind] =
                      [nm \in named \cup DOMAIN @ |->
                         IF nm \in named THEN last_i(nm) - 1 ELSE @[nm]]]
      allnames == SelectSeq([i \in 1 .. Len(list) |-> st.heap[list[i]].name],
                            LAMBDA x : x # "")
  IN [st EXCEPT !.heap = h2, !.ids = ids2,
                !.ub = @ \/ (SeqSet(list) \cap st.freed # {}),
                !.err = IF kind # "frame" /\ bad # {} THEN "incompatible id"
                        ELSE IF Repeated(allnames) # {}
                          THEN "repeated name '" \o adjacent_find(allnames)
                               \o "' in " \o kind
                        ELSE ""]

\* mjCModel::FindObject, lines 592-597; a read outside the list yields
\* either a null or some other pointer (input oobnull of the call)
FindObject(st, kind, name) ==
  LET r == findobject(st, kind, name)
  IN IF r.oob THEN (IF st.oobnull THEN NULL ELSE Wild) ELSE r.res

\* p->id; through a wild pointer or into freed memory any value is read
\* (input wildid of the call)
IdOf(st, p) ==
  IF p \in DOMAIN st.heap /\ p \notin st.freed THEN st.heap[p].id
  ELSE st.wildid

Dangling(st, p) == p # NULL /\ (p \notin DOMAIN st.heap \/ p \in st.freed)

\* SetNotVisual() through pointer p
SetNotVisual(st, p) ==
  IF p \in DOMAIN st.heap /\ p \notin st.freed
    THEN [st EXCEPT !.heap[p].visual = FALSE]
    ELSE [st EXCEPT !.ub = TRUE]

\* DeleteAll<mjCMaterial>, lines 742-752, with DeleteMaterial 647-654
DeleteAllMaterials(st) ==
  [st EXCEPT
     !.heap = [a \in DOMAIN @ |->
                 IF a \in SeqSet(st.geoms) THEN [@[a] EXCEPT !.material = ""]
                 ELSE @[a]],
     !.freed = @ \cup SeqSet(st.materials),
     !.materials = <<>>]

\* IndexAssets, lines 769-812 for one geom
IndexGeom(st, g, discard) ==
  LET o == st.heap[g]
      rm == findobject(st, "material", o.material)
      pm == FindObject(st, "material", o.material)
      s1 == IF o.material = "" THEN st
            ELSE IF pm = NULL THEN [st EXCEPT !.err = "material not found"]
            ELSE [st EXCEPT !.heap[g].matid = IdOf(st, pm),
                            !.ub = @ \/ rm.oob \/ Dangling(st, pm)]
      rs == findobject(s1, "mesh", o.meshname)
      ps == FindObject(s1, "mesh", o.meshname)
  IN IF s1.err # "" \/ o.meshname = "" THEN s1
     ELSE IF ps = NULL THEN [s1 EXCEPT !.err = "mesh not found"]
     ELSE IF discard /\ o.visual THEN [s1 EXCEPT !.heap[g].mesh = NULL,
                                                 !.ub = @ \/ rs.oob]
     ELSE LET s2 == [s1 EXCEPT !.heap[g].mesh = ps, !.ub = @ \/ rs.oob]
          IN IF discard THEN SetNotVisual(s2, ps) ELSE s2

RECURSIVE IndexGeoms(_, _, _)
IndexGeoms(st, i, discard) ==
  IF st.err # "" \/ i > Len(st.geoms) THEN st
  ELSE IndexGeoms(IndexGeom(st, st.geoms[i], discard), i + 1, discard)

\* DeleteElements, lines 681-716: compaction, delete, ids moved down by the
\* number of discarded elements in front; del is the set of discarded objects
DeleteElements(st, f, del) ==
  LET list == st[f]
      nd(k) == Cardinality({j \in 1 .. Len(list) : j - 1 < k /\ list[j] \in del})
      keep == SelectSeq(list, LAMBDA a : a \notin del)
  IN [st EXCEPT
        ![f] = keep,
        !.freed = @ \cup del,
        !.heap = [a \in DOMAIN @ |->
                    IF a \in SeqSet(keep) /\ @[a].id > 0
                      THEN [@[a] EXCEPT !.id = @ - nd(@)]
                    ELSE @[a]]]

\* Delete<mjCGeom>, lines 719-732: the geoms leave the lists of the bodies too
DeleteGeoms(st, del) ==
  DeleteElements(
    [st EXCEPT !.heap = [a \in DOMAIN @ |->
                           IF a \in SeqSet(st.bodies)
                             THEN [@[a] EXCEPT !.geoms =
                                     SelectSeq(@, LAMBDA x : x \notin del)]
                           ELSE @[a]]],
    "geoms", del)

\* IndexAssets(discard), lines 766-887
IndexAssets(st, discard) ==
  LET s1 == IndexGeoms(st, 1, discard)
      dm == {a \in SeqSet(s1.meshes) : s1.heap[a].visual}
      dg == {a \in SeqSet(s1.geoms) : s1.heap[a].visual}
  IN IF s1.err # "" \/ ~discard THEN s1
     ELSE DeleteGeoms(DeleteElements(s1, "meshes", dm), dg)

RECURSIVE SumOver(_, _, _)
SumOver(q, F(_), i) == IF i > Len(q) THEN 0 ELSE F(q[i]) + SumOver(q, F, i + 1)

\* the joint types mjJNT_FREE, mjJNT_BALL, mjJNT_SLIDE, mjJNT_HINGE
JointTypes == {"free", "ball", "slide", "hinge"}

nPOS_asvel(type) == CASE type = "free" -> 6 [] type = "ball" -> 3 [] OTHER -> 1

\* nPOS and nVEL, lines 953-954
nPOS(type) == CASE type = "free" -> 7 [] type = "ball" -> 4 [] OTHER -> 1
nVEL(type) == CASE type = "free" -> 6 [] type = "ball" -> 3 [] OTHER -> 1

WeldOf_world(hasjoints, ownid, parentweld) == IF hasjoints THEN ownid ELSE 0

\* weldid of a child, user_objects.cc 1127 and user_model.cc 2443: the child
\* itself when it has joints, the weldid of its parent otherwise
WeldOf(hasjoints, ownid, parentweld) ==
  IF hasjoints THEN ownid ELSE parentweld

\* mjCBody::Compile, user_objects.cc 1233-1241: a ball or hinge joint comes
\* after a ball joint in the list of the body
BallThenRotation(types) ==
  \E i, j \in 1 .. Len(types) :
    i < j /\ types[i] = "ball" /\ types[j] \in {"ball", "hinge"}

\* mjCBoundingVolumeHierarchy::MakeBVH, user_objects.cc 316-425: the number
\* of nodes made for n elements: none for no element, a leaf for one, else
\* a node and the trees of the two halves
RECURSIVE MakeBVH(_)
MakeBVH(n) ==
  IF n = 0 THEN 0
  ELSE IF n = 1 THEN 1
  ELSE 1 + MakeBVH(n \div 2) + MakeBVH(n - (n \div 2))

\* CreateBVH, user_objects.cc 294-313: the elements that get a leaf are the
\* bounding volumes with contype or conaffinity; each leaf points to the id
\* of its geom
CreateBVH(h, geomlist) == SelectSeq(geomlist, LAMBDA g : h[g].contype # 0)

\* mjCBody::Compile, user_objects.cc 1105-1297: the working copy is reset
\* from the spec, the children get parentid and weldid, the geoms of the
\* body are compiled (mjCGeom::Compile, 2004-2041: visual_), the joints
\* are compiled and their dofs counted
CompileBody(st, b) ==
  LET o == st.heap[b]
      types == [i \in 1 .. Len(o.joints) |-> st.heap[o.joints[i]].type]
      nvel(t) == nVEL(t)
      dofs == SumOver(types, nvel, 1)
  IN [st EXCEPT
        !.heap =
          [a \in DOMAIN @ |->
             IF a = b THEN [@[a] EXCEPT !.pos = o.spec_pos,
                                        !.mass = o.spec_mass,
                                        !.ipos = o.spec_ipos,
                                        !.bvleaf =
                                          IF o.geoms # <<>>
                                            THEN CreateBVH(st.heap, o.geoms)
                                          ELSE @,
                                        !.nbvh =
                                          IF o.geoms # <<>>
                                            THEN MakeBVH(Len(CreateBVH(
                                                   st.heap, o.geoms)))
                                          ELSE @,
                                        !.dofnum = dofs]
             ELSE IF a \in SeqSet(o.bodies)
               THEN [@[a] EXCEPT !.parentid = o.id,
                                 !.weldid = WeldOf(st.heap[a].joints # <<>>,
                                                   st.heap[a].id, o.weldid)]
             ELSE IF a \in SeqSet(o.geoms)
               THEN [@[a] EXCEPT !.visual = (st.heap[a].contype = 0)]
             ELSE @[a]],
        !.err = IF dofs > 6 THEN "more than 6 dofs in body"
                ELSE IF BallThenRotation(types)
                  THEN "ball followed by rotation in body"
                ELSE IF o.mocap /\ (dofs # 0 \/ o.parentid # 0)
                  THEN "mocap body is not a fixed child of world"
                ELSE ""]

RECURSIVE CompileBodies(_, _)
CompileBodies(st, i) ==
  IF st.err # "" \/ i > Len(st.bodies) THEN st
  ELSE CompileBodies(CompileBody(st, st.bodies[i]), i + 1)

\* position of a in q
IndexIn(q, a) == MinOf({i \in 1 .. Len(q) : q[i] = a})

\* b << 16 on a 32-bit int: the low 16 bits of b move up, bit 15 becomes
\* the sign
ShiftLeft16(b) ==
  LET lo == b % 65536
  IN IF lo >= 32768 THEN (lo - 65536) * 65536 ELSE lo * 65536

\* user_objects.cc 3764 and 3931: (body1 << 16) + body2 on ints
Signature(b1, b2) == ShiftLeft16(b1) + b2

\* mjCPair::Compile, user_objects.cc 3728-3771, for pair p
CompilePair(st, p) ==
  LET o == st.heap[p]
      r1 == findobject(st, "geom", o.name1)
      r2 == findobject(st, "geom", o.name2)
      g1 == FindObject(st, "geom", o.name1)
      g2 == FindObject(st, "geom", o.name2)
      s1 == SetNotVisual(SetNotVisual([st EXCEPT !.ub = @ \/ r1.oob \/ r2.oob],
                                      g1), g2)
      b1 == IdOf(st, IF g1 \in DOMAIN st.heap THEN st.heap[g1].body ELSE Wild)
      b2 == IdOf(st, IF g2 \in DOMAIN st.heap THEN st.heap[g2].body ELSE Wild)
      swap == b1 > b2
  IN IF g1 = NULL \/ g2 = NULL
       THEN [st EXCEPT !.err = "geom not found in collision"]
     ELSE [s1 EXCEPT !.heap[p].geom1 = IF swap THEN g2 ELSE g1,
                     !.heap[p].geom2 = IF swap THEN g1 ELSE g2,
                     !.heap[p].signature = IF swap THEN Signature(b2, b1)
                                           ELSE Signature(b1, b2)]

\* mjCBodyPair::Compile, user_objects.cc 3898-3932, for exclude p
CompileBodyPair(st, p) ==
  LET o == st.heap[p]
      r1 == findobject(st, "body", o.name1)
      r2 == findobject(st, "body", o.name2)
      pb1 == FindObject(st, "body", o.name1)
      pb2 == FindObject(st, "body", o.name2)
      b1 == IdOf(st, pb1)
      b2 == IdOf(st, pb2)
      swap == b1 > b2
  IN IF pb1 = NULL \/ pb2 = NULL
       THEN [st EXCEPT !.err = "body not found in bodypair"]
     ELSE [st EXCEPT !.ub = @ \/ r1.oob \/ r2.oob \/ Dangling(st, pb1)
                            \/ Dangling(st, pb2),
                     !.heap[p].body1 = IF swap THEN b2 ELSE b1,
                     !.heap[p].body2 = IF swap THEN b1 ELSE b2,
                     !.heap[p].signature = IF swap THEN Signature(b2, b1)
                                           ELSE Signature(b1, b2)]

\* lines 2949-2950: every pair, then every exclude is compiled
RECURSIVE CompilePairs(_, _)
CompilePairs(st, i) ==
  IF st.err # "" \/ i > Len(st.pairs) THEN st
  ELSE CompilePairs(CompilePair(st, st.pairs[i]), i + 1)

RECURSIVE CompileExcludes(_, _)
CompileExcludes(st, i) ==
  IF st.err # "" \/ i > Len(st.excludes) THEN st
  ELSE CompileExcludes(CompileBodyPair(st, st.excludes[i]), i + 1)

comparePair_reverse(h, el1, el2) == h[el1].signature > h[el2].signature

\* comparePair and compareBodyPair, lines 2662-2667
comparePair(h, el1, el2) == h[el1].signature < h[el2].signature

\* std::stable_sort with comparePair: x is put behind the elements of the
\* sorted q that are not greater than it
RECURSIVE InsertBySignature(_, _, _)
InsertBySignature(h, q, x) ==
  IF q = <<>> THEN <<x>>
  ELSE IF comparePair(h, x, q[Len(q)])
    THEN Append(InsertBySignature(h, SubSeq(q, 1, Len(q) - 1), x), q[Len(q)])
  ELSE Append(q, x)

RECURSIVE StableSort(_, _)
StableSort(h, q) ==
  IF q = <<>> THEN <<>>
  ELSE InsertBySignature(h, StableSort(h, SubSeq(q, 1, Len(q) - 1)),
                         q[Len(q)])

reassignid_kept(st, f) == st

\* reassignid, lines 2671-2676, for the list f
reassignid(st, f) ==
  [st EXCEPT !.heap = [a \in DOMAIN @ |->
                         IF a \in SeqSet(st[f])
                           THEN [@[a] EXCEPT !.id = IndexIn(st[f], a) - 1]
                         ELSE @[a]]]

\* lines 2965-2969: pairs and excludes in increasing order of signature,
\* ids reassigned
SortPairs(st) ==
  reassignid(
    reassignid([st EXCEPT !.pairs = StableSort(st.heap, @),
                          !.excludes = StableSort(st.heap, @)],
               "pairs"),
    "excludes")

\* mjCTuple::Compile, user_objects.cc 5443-5476, entry i of tuple t
RECURSIVE CompileTupleFrom(_, _, _)
CompileTupleFrom(st, t, i) ==
  LET o == st.heap[t]
  IN IF st.err # "" \/ i > Len(o.objtype) THEN st
     ELSE LET r == findobject(st, o.objtype[i], o.objname[i])
              res == FindObject(st, o.objtype[i], o.objname[i])
              s1 == [st EXCEPT !.ub = @ \/ r.oob]
              s2 == IF o.objtype[i] = "geom" THEN SetNotVisual(s1, res) ELSE s1
          IN IF res = NULL
               THEN [s1 EXCEPT !.err = "unrecognized object"]
               ELSE CompileTupleFrom(
                      [s2 EXCEPT !.heap[t].obj =
                         [k \in 1 .. i |-> IF k = i THEN res ELSE @[k]]],
                      t, i + 1)

\* lines 2956-2957: every tuple is compiled
RECURSIVE CompileTuples(_, _)
CompileTuples(st, i) ==
  IF st.err # "" \/ i > Len(st.tuples) THEN st
  ELSE CompileTuples(
         CompileTupleFrom([st EXCEPT !.heap[st.tuples[i]].obj = <<>>],
                          st.tuples[i], 1),
         i + 1)

\* SetSizes, lines 969-1118
SetSizes(st) ==
  LET nl(a) == NameLen(st.heap[a].name) + 1
      td(a) == Len(st.heap[a].objtype)
      np(a) == nPOS(st.heap[a].type)
      nd(a) == nVEL(st.heap[a].type)
  IN [st EXCEPT !.sz =
        [nbody |-> Len(st.bodies), njnt |-> Len(st.joints),
         ngeom |-> Len(st.geoms), nmesh |-> Len(st.meshes),
         nmat |-> Len(st.materials), ntuple |-> Len(st.tuples),
         ntupledata |-> st.sz.ntupledata + SumOver(st.tuples, td, 1),
         nkey |-> Len(st.keys),
         nnames |-> 1 + SumOver(st.bodies, nl, 1) + SumOver(st.joints, nl, 1)
                     + SumOver(st.geoms, nl, 1) + SumOver(st.meshes, nl, 1)
                     + SumOver(st.materials, nl, 1) + SumOver(st.pairs, nl, 1)
                     + SumOver(st.excludes, nl, 1) + SumOver(st.tuples, nl, 1)
                     + SumOver(st.keys, nl, 1),
         nq |-> st.sz.nq + SumOver(st.joints, np, 1),
         nv |-> st.sz.nv + SumOver(st.joints, nd, 1),
         nM |-> st.sz.nM, nD |-> st.sz.nD,
         npair |-> Len(st.pairs), nexclude |-> Len(st.excludes),
         nbvhstatic |-> st.sz.nbvhstatic
                        + SumOver(st.bodies, LAMBDA a : st.heap[a].nbvh, 1)]]

\* FuseReindex, lines 2435-2451, for the bodies of order from position i:
\* parentid and weldid of the children
RECURSIVE FuseReindexFrom(_, _, _)
FuseReindexFrom(st, order, i) ==
  IF i > Len(order) THEN st
  ELSE LET o == st.heap[order[i]]
       IN FuseReindexFrom(
            [st EXCEPT !.heap =
               [a \in DOMAIN @ |->
                  IF a \in SeqSet(o.bodies)
                    THEN [@[a] EXCEPT !.parentid = o.id,
                                      !.weldid = WeldOf(st.heap[a].joints # <<>>,
                                                        st.heap[a].id, o.weldid)]
                  ELSE @[a]]],
            order, i + 1)

\* FuseReindex with makelistid, lines 2413-2419: the joint and geom lists
\* are rebuilt in tree order and the ids follow the positions
FuseReindex(st) ==
  LET order == TreeOrder(st.heap, st.bodies[1])
      s1 == FuseReindexFrom(st, order, 1)
      js == Gather(s1.heap, order, "joints", 1)
      gs == Gather(s1.heap, order, "geoms", 1)
  IN [s1 EXCEPT !.joints = js, !.geoms = gs,
                !.heap = [a \in DOMAIN @ |->
                            IF a \in SeqSet(js)
                              THEN [@[a] EXCEPT !.id = IndexIn(js, a) - 1]
                            ELSE IF a \in SeqSet(gs)
                              THEN [@[a] EXCEPT !.id = IndexIn(gs, a) - 1]
                            ELSE @[a]]]

\* FuseStatic, lines 2557-2650, for one static body b: its children and
\* geoms move to the parent, it leaves the lists and it is deleted; the
\* destructor of the body deletes its frames (user_objects.cc 752-769).
\* Of the fold of mass and inertia, lines 2485-2556, the mass and the
\* centre of mass along one axis are modelled; the bodies are not rotated.
FoldsMass_always(parentid, mass) == mass > 0

FoldsMass(parentid, mass) == parentid > 0 /\ mass > 0

FuseBody(st, b) ==
  LET o == st.heap[b]
      par == st.bodies[o.parentid + 1]
      po == st.heap[par]
      k == IndexIn(st.heap[par].bodies, b)
      left == SelectSeq(st.bodies, LAMBDA x : x # b)
      fold == FoldsMass(o.parentid, o.mass)
      total == po.mass + o.mass
      s1 == [st EXCEPT
               !.heap = [a \in DOMAIN @ |->
                  IF a = par
                    THEN [@[a] EXCEPT
                            !.bodies = SubSeq(@, 1, k - 1) \o o.bodies
                                       \o SubSeq(@, k + 1, Len(@)),
                            !.geoms = @ \o o.geoms,
                            !.mass = IF fold THEN total ELSE @,
                            !.ipos = IF fold
                                       THEN (po.mass * po.ipos
                                             + o.mass * (o.pos + o.ipos))
                                            \div total
                                     ELSE @]
                  ELSE IF a \in SeqSet(o.bodies)
                    THEN [@[a] EXCEPT !.pos = o.pos + @]
                  ELSE IF a \in SeqSet(o.geoms)
                    THEN [@[a] EXCEPT !.body = par]
                  ELSE IF a = b
                    THEN [@[a] EXCEPT !.bodies = <<>>, !.geoms = <<>>]
                  ELSE @[a]],
               !.bodies = left,
               !.sz = [@ EXCEPT !.nbody = @ - 1,
                                !.nnames = @ - (NameLen(o.name) + 1)],
               !.joints = <<>>, !.geoms = <<>>]
      s2 == [s1 EXCEPT !.heap =
               [a \in DOMAIN @ |->
                  IF a \in SeqSet(left)
                    THEN [@[a] EXCEPT !.id = IndexIn(left, a) - 1]
                  ELSE @[a]]]
  IN [FuseReindex(s2) EXCEPT
        !.freed = @ \cup {b} \cup SeqSet(o.frames) \cup SeqSet(o.joints)]

\* FuseStatic, lines 2477-2480: a body with joints or a mocap body stays
SkipsFuse(o) == o.joints # <<>> \/ o.mocap

\* the loop without the second look at index i after a fusion
RECURSIVE FuseFrom_norecheck(_, _)
FuseFrom_norecheck(st, i) ==
  IF i >= Len(st.bodies) THEN st
  ELSE IF SkipsFuse(st.heap[st.bodies[i + 1]])
    THEN FuseFrom_norecheck(st, i + 1)
  ELSE FuseFrom_norecheck(FuseBody(st, st.bodies[i + 1]), i + 1)

\* the loop of FuseStatic, lines 2473-2654, i counting from 0 as in the code
RECURSIVE FuseFrom(_, _)
FuseFrom(st, i) ==
  IF i >= Len(st.bodies) THEN st
  ELSE IF SkipsFuse(st.heap[st.bodies[i + 1]]) THEN FuseFrom(st, i + 1)
  ELSE FuseFrom(FuseBody(st, st.bodies[i + 1]), i)

\* FuseStatic, lines 2456-2655: nothing is fused when an object that refers
\* to others by id exists (of the modelled kinds: pair, exclude, tuple)
FuseStatic(st) ==
  IF st.pairs # <<>> \/ st.excludes # <<>> \/ st.tuples # <<>> THEN st
  ELSE FuseFrom(st, 1)

BodyDofParents_flat(lastdof, dofadr, n) == [k \in 1 .. n |-> lastdof]

\* CopyTree, lines 1613-1629: the dofs of one body with n dofs, the first at
\* address dofadr, chained behind lastdof
BodyDofParents(lastdof, dofadr, n) ==
  [k \in 1 .. n |-> IF k = 1 THEN lastdof ELSE dofadr + k - 2]

\* CopyTree, lines 1507-1519: the free joint checks of one body
FreeJointError(types, parentid) ==
  LET cntfree == Cardinality({j \in 1 .. Len(types) : types[j] = "free"})
  IN IF cntfree > 1 \/ (cntfree = 1 /\ Len(types) > 1)
       THEN "free joint can only appear by itself"
     ELSE IF cntfree > 0 /\ parentid # 0
       THEN "free joint can only be used on top level"
     ELSE ""

\* CopyTree, lines 1571-1584: some joint of the body comes after a ball or
\* hinge, is not at the origin of the body, or is a hinge or slide whose
\* axis has more than one component; js are the joints as records
JointsNotSimple(js) ==
  \E k \in 1 .. Len(js) :
    \/ \E r \in 1 .. (k - 1) : js[r].type \in {"ball", "hinge"}
    \/ js[k].spec_pos # 0
    \/ js[k].type \in {"hinge", "slide"} /\ js[k].axisnz > 1

\* CopyTree, lines 1531-1539, 1571-1578 and 1636-1645: body_simple of body
\* o with parent par and joints js
SimpleLevel(o, par, js) ==
  LET sameframe == o.ipos = 0
      selfroot == o.id = 0 \/ o.parentid = 0
      init == sameframe /\ (selfroot \/ (par.parentid = 0 /\ par.dofnum = 0))
  IN IF ~init \/ JointsNotSimple(js) THEN 0
     ELSE IF o.dofnum > 0 /\ \A k \in 1 .. Len(js) : js[k].type = "slide"
       THEN 2
     ELSE 1

ParentNotSimple_never(simple, parentid) == simple

\* CopyTree, lines 1541-1544: the parent of the body is not simple, unless
\* it is the world; simple holds body_simple of the bodies before
ParentNotSimple(simple, parentid) ==
  IF parentid > 0 THEN [simple EXCEPT ![parentid + 1] = 0] ELSE simple

\* CopyTree, lines 1464-1647: the main loop over the bodies from body i
\* (counted from 1); the dofs packed so far are those of st.dof_parentid
RECURSIVE CopyBodies(_, _)
CopyBodies(st, i) ==
  IF st.err # "" \/ i > Len(st.bodies) THEN st
  ELSE LET pb == st.bodies[i]
           o == st.heap[pb]
           par == st.heap[st.bodies[o.parentid + 1]]
           types == [j \in 1 .. Len(o.joints) |-> st.heap[o.joints[j]].type]
           nvel(t) == nVEL(t)
           n == SumOver(types, nvel, 1)
           dofadr == Len(st.dof_parentid)
           e == FreeJointError(types, o.parentid)
       IN IF e # "" THEN [st EXCEPT !.err = e]
          ELSE CopyBodies(
                 [st EXCEPT
                    !.heap[pb].lastdof = IF n > 0 THEN dofadr + n - 1
                                         ELSE par.lastdof,
                    !.dof_parentid = @ \o BodyDofParents(par.lastdof,
                                                         dofadr, n),
                    !.body_simple =
                       Append(ParentNotSimple(@, o.parentid),
                              SimpleLevel(o, par,
                                [j \in 1 .. Len(o.joints) |->
                                   st.heap[o.joints[j]]]))],
                 i + 1)

ChainLength_self(dof_parentid, j) == IF j < 0 THEN 0 ELSE 1

\* lines 1811-1815: the number of dofs on the chain from dof j (counted
\* from 0) up to a root, j included
RECURSIVE ChainLength(_, _)
ChainLength(dof_parentid, j) ==
  IF j < 0 THEN 0 ELSE 1 + ChainLength(dof_parentid, dof_parentid[j + 1])

\* lines 1804-1817: dof_Madr of the dofs from i on (counted from 0), given
\* the running value nM
RECURSIVE MadrFrom(_, _, _)
MadrFrom(dof_parentid, i, nM) ==
  IF i >= Len(dof_parentid) THEN <<>>
  ELSE <<nM>> \o MadrFrom(dof_parentid, i + 1,
                          nM + ChainLength(dof_parentid, i))

\* lines 1823-1830: the backward pass over the bodies from body i down to 1
\* (counted from 0); the counts are added to what the bodies hold
RECURSIVE SubtreeDofs(_, _, _)
SubtreeDofs(h, bs, i) ==
  IF i < 1 THEN h
  ELSE LET b == bs[i + 1]
           p == bs[h[b].parentid + 1]
           own == h[b].subtreedofs + h[b].dofnum
           h1 == [h EXCEPT ![b].subtreedofs = own]
       IN SubtreeDofs([h1 EXCEPT ![p].subtreedofs = @ + own], bs, i - 1)

\* mjCModel::CopyTree, lines 1456-1845 (of the modelled fields)
CopyTree(st) ==
  LET s1 == CopyBodies([st EXCEPT !.dof_parentid = <<>>,
                                  !.body_simple = <<>>], 1)
      nv == Len(s1.dof_parentid)
      madr == MadrFrom(s1.dof_parentid, 0, 0)
      chain(j) == ChainLength(s1.dof_parentid, j)
      nM == SumOver([j \in 1 .. nv |-> j - 1], chain, 1)
      h2 == SubtreeDofs(s1.heap, s1.bodies, Len(s1.bodies) - 1)
  IN IF s1.err # "" THEN s1
     ELSE IF st.sz.nv # nv
       THEN [s1 EXCEPT !.err = "unexpected number of DOFs"]
     ELSE [s1 EXCEPT !.dof_Madr = madr,
                     !.sz = [@ EXCEPT !.nM = nM, !.nD = 2 * nM - nv],
                     !.heap = h2,
                     !.err = IF h2[s1.bodies[1]].subtreedofs # nv
                               THEN "all DOFs should be in world subtree"
                             ELSE ""]

\* the bytes of the names in use (std::string::c_str)
NameBytes(n) ==
  CASE n = "world" -> <<119, 111, 114, 108, 100>>
    [] n = "b1" -> <<98, 49>> [] n = "b2" -> <<98, 50>>
    [] n = "b3" -> <<98, 51>> [] n = "b4" -> <<98, 52>>
    [] n = "g1" -> <<103, 49>> [] n = "g2" -> <<103, 50>>
    [] n = "g3" -> <<103, 51>> [] n = "g4" -> <<103, 52>>
    [] n = "j1" -> <<106, 49>> [] n = "j2" -> <<106, 50>>
    [] n = "j3" -> <<106, 51>> [] n = "j4" -> <<106, 52>>
    [] n = "j5" -> <<106, 53>> [] n = "j6" -> <<106, 54>>
    [] n = "j7" -> <<106, 55>>
    [] n = "gc" -> <<103, 99>> [] n = "mc" -> <<109, 99>>
    [] n = "f" -> <<102>> [] n = "j" -> <<106>> [] n = "k" -> <<107>>
    [] n = "t" -> <<116>>
    [] OTHER -> <<>>

\* slots per entity in a names-map segment (line 1327)
mjLOAD_MULTIPLE == 2

\* djb2 over the bytes of the name, reduced modulo n; the names here are too
\* short to wrap 64 bits, so the reduction is taken at every step
RECURSIVE djb2(_, _, _, _)
djb2(bytes, i, hsh, n) ==
  IF i > Len(bytes) THEN hsh % n
  ELSE djb2(bytes, i + 1, ((hsh % n) * 33 + bytes[i]) % n, n)

mj_hashdjb2(name, n) == djb2(NameBytes(name), 1, 5381, n)

\* for (; map[j]!=-1; j=(j+1) % map_size) {}   (line 1337)
RECURSIVE FirstEmpty(_, _, _, _)
FirstEmpty(map, base, j, map_size) ==
  IF map[base + j + 1] = -1 THEN j
  ELSE FirstEmpty(map, base, (j + 1) % map_size, map_size)

\* a collision handler that takes the hashed slot as it is
RECURSIVE namelist_overwrite(_, _, _, _)
namelist_overwrite(names, map, base, i) ==
  IF i > Len(names) THEN map
  ELSE IF names[i] = "" THEN namelist_overwrite(names, map, base, i + 1)
  ELSE LET map_size == mjLOAD_MULTIPLE * Len(names)
           j == mj_hashdjb2(names[i], map_size)
       IN namelist_overwrite(names, [map EXCEPT ![base + j + 1] = i - 1],
                             base, i + 1)

\* namelist (lines 1325-1346): the hash-map part for one list, whose segment
\* starts at base in the names map
RECURSIVE namelist(_, _, _, _)
namelist(names, map, base, i) ==
  IF i > Len(names) THEN map
  ELSE IF names[i] = "" THEN namelist(names, map, base, i + 1)
  ELSE LET map_size == mjLOAD_MULTIPLE * Len(names)
           j == FirstEmpty(map, base, mj_hashdjb2(names[i], map_size),
                           map_size)
       IN namelist(names, [map EXCEPT ![base + j + 1] = i - 1], base, i + 1)

\* the names of the lists in the order CopyNames walks them
NameLists(st) ==
  LET col(q) == [i \in 1 .. Len(q) |-> st.heap[q[i]].name]
  IN <<col(st.bodies), col(st.joints), col(st.geoms), col(st.meshes),
       col(st.materials), col(st.pairs), col(st.excludes), col(st.tuples),
       col(st.keys)>>

RECURSIVE CopyNamesFrom(_, _, _, _)
CopyNamesFrom(lists, map, map_adr, k) ==
  IF k > Len(lists) THEN map
  ELSE CopyNamesFrom(lists, namelist(lists[k], map, map_adr, 1),
                     map_adr + mjLOAD_MULTIPLE * Len(lists[k]), k + 1)

\* CopyNames (lines 1350-1430): the names map is set to -1 throughout, then
\* each list fills its own segment
CopyNames(st) ==
  LET lists == NameLists(st)
      nnames_map == mjLOAD_MULTIPLE
                      * SumOver(lists, LAMBDA q : Len(q), 1)
  IN CopyNamesFrom(lists, [s \in 1 .. nnames_map |-> -1], 0, 1)

\* the runtime model as CopyNames, CopyTree and CopyObjects fill it
\* (lines 1350-2400), restricted to the modelled fields
MakeModel(st) ==
  LET h == st.heap
      col(q, F(_)) == [i \in 1 .. Len(q) |-> F(q[i])]
      nm(a) == h[a].name
  IN [valid |-> TRUE, sz |-> st.sz,
      body_name |-> col(st.bodies, nm),
      body_parentid |-> col(st.bodies, LAMBDA a : IF a = st.bodies[1] THEN 0
                                                  ELSE h[a].parentid),
      body_pos |-> col(st.bodies, LAMBDA a : h[a].pos),
      body_weldid |-> col(st.bodies, LAMBDA a : h[a].weldid),
      body_jntnum |-> col(st.bodies, LAMBDA a : Len(h[a].joints)),
      body_dofnum |-> col(st.bodies, LAMBDA a : h[a].dofnum),
      body_mass |-> col(st.bodies, LAMBDA a : h[a].mass),
      body_ipos |-> col(st.bodies, LAMBDA a : h[a].ipos),
      body_mocapid |-> [i \in 1 .. Len(st.bodies) |->
                         IF h[st.bodies[i]].mocap
                           THEN Cardinality({j \in 1 .. (i - 1) :
                                               h[st.bodies[j]].mocap})
                         ELSE -1],
      body_bvhnum |-> col(st.bodies, LAMBDA a : h[a].nbvh),
      bvh_nodeid |-> col(st.bodies, LAMBDA a :
                       [i \in 1 .. Len(h[a].bvleaf) |->
                          IdOf(st, h[a].bvleaf[i])]),
      geom_contype |-> col(st.geoms, LAMBDA a : h[a].contype),
      jnt_type |-> col(st.joints, LAMBDA a : h[a].type),
      dof_parentid |-> st.dof_parentid,
      dof_Madr |-> st.dof_Madr,
      body_simple |-> st.body_simple,
      jnt_pos |-> col(st.joints, LAMBDA a : h[a].spec_pos),
      jnt_axisnz |-> col(st.joints, LAMBDA a : h[a].axisnz),
      pair_geom1 |-> col(st.pairs, LAMBDA a : IdOf(st, h[a].geom1)),
      pair_geom2 |-> col(st.pairs, LAMBDA a : IdOf(st, h[a].geom2)),
      pair_signature |-> col(st.pairs, LAMBDA a : h[a].signature),
      exclude_signature |-> col(st.excludes, LAMBDA a : h[a].signature),
      jnt_name |-> col(st.joints, nm),
      jnt_bodyid |-> col(st.joints, LAMBDA a : IdOf(st, h[a].body)),
      geom_name |-> col(st.geoms, nm),
      geom_bodyid |-> col(st.geoms, LAMBDA a : IdOf(st, h[a].body)),
      geom_dataid |-> col(st.geoms, LAMBDA a : IF h[a].mesh # NULL
                                                 THEN IdOf(st, h[a].mesh)
                                                 ELSE -1),
      geom_matid |-> col(st.geoms, LAMBDA a : h[a].matid),
      mesh_name |-> col(st.meshes, nm),
      mat_name |-> col(st.materials, nm),
      pair_name |-> col(st.pairs, nm),
      exclude_name |-> col(st.excludes, nm),
      tuple_name |-> col(st.tuples, nm),
      key_name |-> col(st.keys, nm),
      names_map |-> CopyNames(st),
      tuple_objtype |-> col(st.tuples, LAMBDA a : h[a].objtype),
      tuple_objid |-> col(st.tuples, LAMBDA a :
                        [j \in 1 .. Len(h[a].obj) |-> IdOf(st, h[a].obj[j])])]

\* some pointer followed by CopyTree or CopyObjects is wild or dangling
CopyReadsFreed(st) ==
  \/ \E a \in SeqSet(st.geoms) : Dangling(st, st.heap[a].mesh)
  \/ \E a \in SeqSet(st.tuples) :
       \E j \in 1 .. Len(st.heap[a].obj) : Dangling(st, st.heap[a].obj[j])

\* number of objects of a kind in the runtime model
NumObjects(mm, kind) ==
  CASE kind = "body" -> mm.sz.nbody [] kind = "joint" -> mm.sz.njnt
    [] kind = "geom" -> mm.sz.ngeom [] kind = "mesh" -> mm.sz.nmesh
    [] kind = "material" -> mm.sz.nmat [] kind = "tuple" -> mm.sz.ntuple
    [] OTHER -> mm.sz.nkey

\* mj_validateReferences(m), called at line 3216: every id of the runtime
\* model is -1 where that is allowed or lies inside the array it refers to
ValidReferences(mm) ==
  /\ \A i \in 1 .. Len(mm.geom_bodyid) :
       mm.geom_bodyid[i] \in 0 .. (mm.sz.nbody - 1)
  /\ \A i \in 1 .. Len(mm.jnt_bodyid) :
       mm.jnt_bodyid[i] \in 0 .. (mm.sz.nbody - 1)
  /\ \A i \in 1 .. Len(mm.geom_matid) :
       mm.geom_matid[i] \in -1 .. (mm.sz.nmat - 1)
  /\ \A i \in 1 .. Len(mm.geom_dataid) :
       mm.geom_dataid[i] \in -1 .. (mm.sz.nmesh - 1)
  /\ \A i \in 1 .. Len(mm.tuple_objid) :
       \A j \in 1 .. Len(mm.tuple_objid[i]) :
         mm.tuple_objid[i][j] \in
           0 .. (NumObjects(mm, mm.tuple_objtype[i][j]) - 1)

\* run phase F unless an mjCError was thrown before it
Then(st, F(_)) == IF st.err # "" THEN st ELSE F(st)

\* lines 2855-2862: processlist for every object list, then for the frames
ProcessLists(st) ==
  Then(Then(Then(Then(Then(Then(Then(Then(Then(
       processlist(st, "body"),
       LAMBDA x : processlist(x, "joint")),
       LAMBDA x : processlist(x, "geom")),
       LAMBDA x : processlist(x, "mesh")),
       LAMBDA x : processlist(x, "material")),
       LAMBDA x : processlist(x, "pair")),
       LAMBDA x : processlist(x, "exclude")),
       LAMBDA x : processlist(x, "tuple")),
       LAMBDA x : processlist(x, "key")),
       LAMBDA x : processlist(x, "frame"))

\* TryCompile, lines 2808-2977, on the specification
TryCompileLists(st, fuse, discard) ==
  Then(Then(Then(Then(Then(Then(Then(Then(Then(Then(
    ProcessLists(MakeLists(st)),
    LAMBDA x : IF discard THEN DeleteAllMaterials(x) ELSE x),
    LAMBDA x : IndexAssets(x, FALSE)),
    LAMBDA x : CompileBodies(x, 1)),
    LAMBDA x : CompilePairs(x, 1)),
    LAMBDA x : CompileExcludes(x, 1)),
    LAMBDA x : CompileTuples(x, 1)),
    LAMBDA x : SortPairs(x)),
    LAMBDA x : IndexAssets(x, discard)),
    LAMBDA x : SetSizes(x)),
    LAMBDA x : IF fuse THEN FuseStatic(x) ELSE x)

\* ------------------------------------------------------------------------
\* The calls on a specification, each as one step
\* ------------------------------------------------------------------------

\* what a read outside a list or through a dangling pointer does: it
\* finds the old content, a null, some other content, or ends the process
UBReads == {"stale", "null", "wild", "crash"}

\* Compile, lines 2739-2750 and 2783-2792: Clear and the world alone in the
\* body list, before a recompilation and after a failure
ClearKeepWorld(st) == [Clear(st) EXCEPT !.bodies = <<st.bodies[1]>>]

\* the steps outside the specification that can fail: mj_makeModel returns
\* null (line 3020, before CopyTree), or a later step fails (mj_makeRawData
\* or mj_makeData returns null, the engine raises an error; lines 3181-3234,
\* after CopyTree)
LateFails == {"none", "makemodel", "engine"}

\* Compile, lines 2742-2744: the dof counts of the bodies are reset before
\* a recompilation
ResetSubtreeDofs(st) ==
  [st EXCEPT !.heap = [a \in DOMAIN @ |->
                         IF a \in SeqSet(st.bodies)
                           THEN [@[a] EXCEPT !.subtreedofs = 0]
                         ELSE @[a]]]

\* mjCModel::Compile, lines 2739-2805, the whole call.
\*   latefail : a step outside the specification fails (LateFails)
\*   ubread   : what the reads with undefined behaviour do, if there are any
Compile(latefail, ubread) ==
  /\ pc = "idle"
  /\ calls.compile < MaxCompile
  /\ calls' = [calls EXCEPT !.compile = @ + 1]
  /\ LET crash == ubread = "crash"
         st0 == [Store EXCEPT !.oobnull = (ubread = "null"),
                              !.wildid = IF ubread = "wild" THEN 1 ELSE 0]
         st1 == IF st0.compiled THEN ClearKeepWorld(ResetSubtreeDofs(st0))
                ELSE st0
     IN \E st2 \in {TryCompileLists(st1, opts.fusestatic, opts.discardvisual)} :
        \E st3 \in {IF st2.err # "" \/ latefail = "makemodel" THEN st2
                    ELSE CopyTree(st2)} :
        \E mm \in {MakeModel(st3)} :
        LET ub == st3.ub \/ (st3.err = "" /\ CopyReadsFreed(st3))
            err == IF st3.err # "" THEN st3.err
                   ELSE IF latefail = "makemodel" THEN "late failure"
                   ELSE IF ~ValidReferences(mm) THEN "invalid references"
                   ELSE IF latefail = "engine" THEN "late failure" ELSE ""
        IN
        /\ latefail # "none" => st3.err = ""
        /\ latefail = "engine" => ValidReferences(mm)
        /\ ubread # "stale" => ub
        /\ IF err # ""
             THEN /\ SetStore(ClearKeepWorld(st3))
                  /\ errInfo' = [msg |-> err, act |-> -1]
                  /\ model' = model
                  /\ since' = "failed"
             ELSE /\ SetStore([st3 EXCEPT !.compiled = TRUE])
                  /\ errInfo' = NoError
                  /\ model' = mm
                  /\ since' = "none"
        /\ prev' = [model |-> model, since |-> since]
        /\ last' = [op |-> IF ub /\ crash THEN "crash" ELSE "compile",
                    ok |-> (err = ""), ub |-> ub,
                    envfail |-> (latefail # "none"), precond |-> FALSE,
                    changed |-> FALSE]
        /\ pc' = IF ub /\ crash THEN "terminated" ELSE "idle"
  /\ UNCHANGED <<opts, userSpec>>
  /\ UNCHANGED <<m, d, released, exc, tls_error, tls_warning, save_error,
                 save_warning, pre_error, pre_warning, ret, engineErr, lrVars>>

\* the sizes CopyBack compares, lines 3267-3275 (of the modelled ones)
ComparedSizes == {"nq", "nv", "nbody", "njnt", "ngeom", "nmesh", "nmat",
                  "npair", "nexclude", "nnames", "nM", "nD"}

AllSizes == DOMAIN NoSizes

\* the sizes in which the model handed to CopyBack may differ
VariedSizes == {"ngeom", "nkey", "ntupledata"}

\* the models a caller can hand to CopyBack: the one Compile returned, with
\* the last body moved, with one size changed by one, or both
ModelVariants(mm) ==
  LET moved == [mm EXCEPT !.body_pos[Len(mm.body_pos)] = @ + 1]
  IN {mm, moved} \cup
     {[x EXCEPT !.sz[f] = @ + dl] :
        x \in {mm, moved}, f \in VariedSizes, dl \in {-1, 1}}

\* mjCModel::CopyBack, lines 3253-3556, the whole call; null is NoModel
CopyBack(mm, crash) ==
  /\ pc = "idle"
  /\ calls.copyback < MaxCopyBack
  /\ calls' = [calls EXCEPT !.copyback = @ + 1]
  /\ LET differs == mm.valid /\ \E f \in AllSizes : mm.sz[f] # sz[f]
         refused == IF ~mm.valid THEN "mjModel pointer is null in CopyBack"
                    ELSE IF ~compiled
                      THEN "mjCModel has not been compiled in CopyBack"
                    ELSE IF \E f \in ComparedSizes : mm.sz[f] # sz[f]
                      THEN "incompatible models in CopyBack"
                    ELSE ""
         \* lines 3530-3553: tuples[i] for i < ntuple reads m->tuple_size[i],
         \* keys[i] is read for i < m->nkey
         ub == refused = "" /\ (\/ mm.sz.nkey > Len(keys)
                                \/ mm.sz.ntuple < sz.ntuple
                                \/ mm.sz.ntupledata > sz.ntupledata)
         h2 == [a \in DOMAIN heap |->
                  IF a \in SeqSet(bodies)
                    THEN [heap[a] EXCEPT !.pos = mm.body_pos[IndexIn(bodies, a)]]
                  ELSE heap[a]]
     IN /\ mm.valid => mm.sz.nbody >= 1 /\ \A f \in AllSizes : mm.sz[f] >= 0
        /\ crash => ub
        /\ IF refused # ""
             THEN /\ errInfo' = [msg |-> refused, act |-> -1]
                  /\ heap' = heap
                  /\ since' = since
             ELSE /\ errInfo' = errInfo
                  /\ heap' = h2
                  /\ since' = IF mm = model /\ since \in {"none", "copyback"}
                                THEN "copyback" ELSE "touched"
        /\ last' = [op |-> IF ub /\ crash THEN "crash" ELSE "copy_back",
                    ok |-> (refused = ""), ub |-> ub,
                    envfail |-> FALSE,
                    precond |-> (~mm.valid \/ ~compiled \/ differs),
                    changed |-> (heap' # heap)]
        /\ pc' = IF ub /\ crash THEN "terminated" ELSE "idle"
  /\ UNCHANGED <<freed, bodies, joints, geoms, meshes, materials, tuples,
                 frames, keys, pairs, excludes, ids, sz, opts, model, prev,
                 userSpec, compiled>>
  /\ UNCHANGED <<m, d, released, exc, tls_error, tls_warning, save_error,
                 save_warning, pre_error, pre_warning, ret, engineErr, lrVars>>

\* ------------------------------------------------------------------------
\* The compile driver as a state machine
\* ------------------------------------------------------------------------
InitDriverSpec ==
  /\ InitDriver /\ InitLR /\ InitStore
  /\ opts = [fusestatic |-> FALSE, discardvisual |-> FALSE]

NextDriver ==
  \/ \E e \in Handlers, w \in Handlers : CompileBegin(e, w)
  \/ \E ok \in BOOLEAN : TryChecks(ok)
  \/ \E ok \in BOOLEAN : TryMakeModel(ok)
  \/ \E ok \in BOOLEAN : TryCopy(ok)
  \/ \E ok \in BOOLEAN : TryMakeRawData(ok)
  \/ TrySetConst
  \/ /\ pc = "lr"
     /\ \E n \in 0 .. MaxNu, mode \in LRModes, ue \in BOOLEAN,
           usethread \in BOOLEAN, nproc \in 1 .. MaxProc :
          \E fail \in SUBSET (0 .. (n - 1)) :
            LRBegin(n, mode, ue, usethread, nproc, fail)
  \/ LRSingleStep
  \/ LRSingleEnd
  \/ \E w \in Workers : LRfunc(w)
  \/ \E w \in Workers : EngineErrorWorker(w)
  \/ LRJoin
  \/ \E ok \in BOOLEAN : TryValidate(ok)
  \/ \E ok \in BOOLEAN : TryRemakeData(ok)
  \/ TryStep
  \/ TryFinish
  \/ EngineErrorMain
  \/ Unwind
  \/ CompileCatch
  \/ CompileReturn

SpecDriver == InitDriverSpec /\ [][NextDriver]_vars

\* ------------------------------------------------------------------------
\* The life of a specification as a state machine
\* ------------------------------------------------------------------------
Init == InitDriver /\ InitLR /\ InitStore

Next ==
  \/ \E a \in DOMAIN Catalog : AddToBody(a)
  \/ \E a \in DOMAIN Catalog : AddObject(a)
  \/ \E latefail \in LateFails, ubread \in UBReads :
       Compile(latefail, ubread)
  \/ \E mm \in {NoModel} \cup (IF model.valid THEN ModelVariants(model) ELSE {}),
        crash \in BOOLEAN : CopyBack(mm, crash)

Spec == Init /\ [][Next]_vars

\* ------------------------------------------------------------------------
\* Kinematic trees: specifications of up to three bodies below the world,
\* with joints, geoms, contact pairs and excludes
\* ------------------------------------------------------------------------

\* addresses: body k of three, joint i of at most two of body k, the geom
\* of body k
BodyAt(k) == 10 + k
JointAt(k, i) == 20 + 2 * (k - 1) + i
GeomAt(k) == 30 + k

\* the two contact pairs and the two excludes
PairsAt == <<41, 42>>
ExcludesAt == <<43, 44>>

\* three frames on body b1, named f, g1 and g1
FramesAt == <<51, 52, 53>>

\* the joints of the bodies, in the order in which they are added
JointChoices ==
  <<{<<>>, <<"hinge">>, <<"slide", "hinge">>, <<"ball", "hinge">>},
    {<<>>, <<"hinge">>, <<"free">>, <<"free", "hinge">>},
    {<<>>, <<"ball">>, <<"free">>, <<"slide">>}>>

\* what besides the tree is in the specification:
\*   bare: body b1 and body b2 below it, nothing else
\*   contacts: two contact pairs and two excludes
\*   dupbody, dupjoint, dupgeom, dupframe: two objects of the kind carry
\*   one name
\*   visual: the geom of body b1 has no contype and no conaffinity
\*   mocap: body b3 is a mocap body
\*   skew: the axis of the first joint of b1 has two components, the first
\*   joint of b2 is off the origin of the body
Variants == {"plain", "bare", "contacts", "dupbody", "dupjoint", "dupgeom",
             "dupframe", "visual", "mocap", "skew"}

\* the objects of a specification as mjs_addBody, mjs_addJoint, mjs_addGeom,
\* mjs_addPair and mjs_addExclude leave them (user_objects.cc 774-835,
\* user_model.cc 351-357); par[k] is the address of the parent of body k,
\* types[k] the joints of body k; masses 2, 3, 3, the centre of mass of b1
\* at 1 in units of 1/120
Scene(par, types, variant) ==
  LET nb == IF variant = "bare" THEN 2 ELSE 3
      children(a) == SelectSeq([k \in 1 .. nb |-> BodyAt(k)],
                               LAMBDA c : par[c - 10] = a)
      bname(k) == IF variant = "dupbody" /\ k = 3 THEN "b1"
                  ELSE <<"b1", "b2", "b3">>[k]
      gname(k) == IF variant = "dupgeom" /\ k = 3 THEN "g1"
                  ELSE <<"g1", "g2", "g3">>[k]
      jname(k, i) == IF variant = "dupjoint" /\ k = 3 THEN "j1"
                     ELSE <<"j1", "j2", "j3", "j4", "j5", "j6">>
                            [2 * (k - 1) + i]
      body(k) == [Obj("body", bname(k), par[k]) EXCEPT
                    !.bodies = children(BodyAt(k)),
                    !.joints = [i \in 1 .. Len(types[k]) |-> JointAt(k, i)],
                    !.geoms = IF variant = "bare" THEN <<>> ELSE <<GeomAt(k)>>,
                    !.frames = IF variant = "dupframe" /\ k = 1 THEN FramesAt
                               ELSE <<>>,
                    !.mocap = (variant = "mocap" /\ k = 3),
                    !.spec_mass = <<2, 3, 3>>[k],
                    !.spec_ipos = <<120, 0, 0>>[k]]
      objs == {BodyAt(k) : k \in 1 .. nb}
              \cup {JointAt(k, i) : k \in 1 .. nb, i \in 1 .. 2}
              \cup {GeomAt(k) : k \in 1 .. nb}
              \cup SeqSet(PairsAt) \cup SeqSet(ExcludesAt) \cup SeqSet(FramesAt)
      present == {a \in objs :
                    \/ a \in {BodyAt(k) : k \in 1 .. nb}
                    \/ \E k \in 1 .. nb : \E i \in 1 .. Len(types[k]) :
                         a = JointAt(k, i)
                    \/ variant # "bare" /\ a \in {GeomAt(k) : k \in 1 .. nb}
                    \/ variant = "contacts"
                       /\ a \in SeqSet(PairsAt) \cup SeqSet(ExcludesAt)
                    \/ variant = "dupframe" /\ a \in SeqSet(FramesAt)}
  IN [a \in {World} \cup present |->
        IF a = World THEN [WorldBody EXCEPT !.bodies = children(World)]
        ELSE IF a \in {BodyAt(k) : k \in 1 .. nb} THEN body(a - 10)
        ELSE IF a \in {GeomAt(k) : k \in 1 .. nb}
          THEN [Obj("geom", gname(a - 30), BodyAt(a - 30)) EXCEPT
                  !.contype = IF variant = "visual" /\ a = GeomAt(1) THEN 0
                              ELSE 1]
        ELSE IF a = PairsAt[1]
          THEN [Obj("pair", "", NULL) EXCEPT !.id = 0, !.name1 = "g3",
                                             !.name2 = "g1"]
        ELSE IF a = PairsAt[2]
          THEN [Obj("pair", "", NULL) EXCEPT !.id = 1, !.name1 = "g1",
                                             !.name2 = "g2"]
        ELSE IF a = ExcludesAt[1]
          THEN [Obj("exclude", "", NULL) EXCEPT !.id = 0, !.name1 = "b3",
                                                !.name2 = "b2"]
        ELSE IF a = ExcludesAt[2]
          THEN [Obj("exclude", "", NULL) EXCEPT !.id = 1, !.name1 = "b2",
                                                !.name2 = "world"]
        ELSE IF a \in SeqSet(FramesAt)
          THEN Obj("frame", IF a = FramesAt[1] THEN "f" ELSE "g1", BodyAt(1))
        ELSE LET k == ((a - 21) \div 2) + 1
                 i == a - 20 - 2 * (k - 1)
             IN [Obj("joint", jname(k, i), BodyAt(k)) EXCEPT
                   !.type = types[k][i],
                   !.axisnz = IF variant = "skew" /\ a = JointAt(1, 1)
                                THEN 2 ELSE 1,
                   !.spec_pos = IF variant = "skew" /\ a = JointAt(2, 1)
                                  THEN 1 ELSE 0]]

\* the model lists of a specification that was built and never compiled
FreshStore(h) ==
  [heap |-> h, freed |-> {}, bodies |-> <<World>>, joints |-> <<>>,
   geoms |-> <<>>, meshes |-> <<>>, materials |-> <<>>, tuples |-> <<>>,
   frames |-> <<>>, keys |-> <<>>,
   pairs |-> SelectSeq(PairsAt, LAMBDA a : a \in DOMAIN h),
   excludes |-> SelectSeq(ExcludesAt, LAMBDA a : a \in DOMAIN h),
   ids |-> EmptyIds, sz |-> NoSizes, compiled |-> FALSE, err |-> "",
   ub |-> FALSE, oobnull |-> FALSE, wildid |-> 0, dof_parentid |-> <<>>,
   dof_Madr |-> <<>>, body_simple |-> <<>>]

\* the specifications a user builds
InitTree ==
  /\ InitDriver /\ InitLR
  /\ opts \in [fusestatic : BOOLEAN, discardvisual : BOOLEAN]
  /\ \E p2 \in {World, BodyAt(1)}, p3 \in {World, BodyAt(1), BodyAt(2)},
        t1 \in JointChoices[1], t2 \in JointChoices[2],
        t3 \in JointChoices[3], variant \in Variants :
       /\ variant = "bare" => p2 = BodyAt(1) /\ t2 = <<>> /\ t3 = <<>>
       /\ variant \in {"dupbody", "dupjoint", "dupgeom", "dupframe"} =>
            p2 = BodyAt(1) /\ p3 = World
       /\ variant = "visual" => t2 = <<>> /\ t3 = <<>>
       /\ variant = "mocap" => t2 = <<>> /\ t3 \in {<<>>, <<"ball">>}
       /\ variant = "skew" => t3 = <<>>
       /\ opts.discardvisual => variant = "visual"
       /\ heap = Scene(<<World, p2, p3>>, <<t1, t2, t3>>, variant)
  /\ freed = {}
  /\ bodies = <<World>>
  /\ joints = <<>> /\ geoms = <<>> /\ meshes = <<>> /\ materials = <<>>
  /\ tuples = <<>> /\ frames = <<>> /\ keys = <<>>
  /\ pairs = FreshStore(heap).pairs /\ excludes = FreshStore(heap).excludes
  /\ ids = EmptyIds
  /\ sz = NoSizes
  /\ model = NoModel
  /\ prev = [model |-> NoModel, since |-> "touched"]
  /\ since = "touched"
  /\ userSpec = heap
  /\ last = [op |-> "none", ok |-> FALSE, ub |-> FALSE, envfail |-> FALSE,
             precond |-> FALSE, changed |-> FALSE]
  /\ calls = [compile |-> 0, copyback |-> 0, late |-> 0, edit |-> 0]

\* the errors that name no object by its name and concern the joints of a
\* body
JointErrors ==
  {"free joint can only appear by itself",
   "free joint can only be used on top level",
   "more than 6 dofs in body", "ball followed by rotation in body"}

\* the field values that the last error is about: the type of a free or
\* ball joint after an error about joints, the name of an object that
\* carries the name reported as repeated
Offending(a, field) ==
  \/ /\ field = "type"
     /\ errInfo.msg \in JointErrors
     /\ heap[a].kind = "joint" /\ heap[a].type \in {"free", "ball"}
  \/ /\ field = "name"
     /\ heap[a].kind \in {"body", "joint", "geom", "frame"}
     /\ errInfo.msg = "repeated name '" \o heap[a].name \o "' in "
                      \o heap[a].kind

\* the user sets a field of an object of the specification after a failed
\* compilation, to correct what the error is about (the setters of the
\* specification; Compile reads the fields through CopyFromSpec)
SetField(a, field, value) ==
  /\ pc = "idle"
  /\ since = "failed"
  /\ calls.edit < MaxEdit
  /\ calls' = [calls EXCEPT !.edit = @ + 1]
  /\ a \in DOMAIN heap /\ a \notin freed /\ a \in DOMAIN userSpec
  /\ Offending(a, field)
  /\ heap[a][field] # value
  /\ heap' = [heap EXCEPT ![a][field] = value]
  /\ userSpec' = [userSpec EXCEPT ![a][field] = value]
  /\ since' = "corrected"
  /\ last' = [op |-> "set", ok |-> TRUE, ub |-> FALSE, envfail |-> FALSE,
              precond |-> FALSE, changed |-> FALSE]
  /\ UNCHANGED <<freed, bodies, joints, geoms, meshes, materials, tuples,
                 frames, keys, pairs, excludes, ids, sz, opts, model, prev>>
  /\ UNCHANGED <<driverVars, lrVars>>

\* a name no object of the kind carries
SpareName(kind) ==
  CASE kind = "body" -> "b3" [] kind = "joint" -> "j6" [] kind = "frame" -> "k"
    [] OTHER -> "g3"

\* the object that a late mjs_addBody, mjs_addJoint or mjs_addGeom creates on
\* body b, and where it lives
LateAt(kind) == CASE kind = "body" -> 61 [] kind = "joint" -> 62
                  [] OTHER -> 63
LateObj(kind, b) ==
  CASE kind = "body" -> [Obj("body", "b4", b) EXCEPT !.spec_mass = 1]
    [] kind = "joint" -> [Obj("joint", "j7", b) EXCEPT !.type = "slide"]
    [] OTHER -> [Obj("geom", "g4", b) EXCEPT !.contype = 1]

\* mjCBody::AddBody, AddJoint, AddGeom (user_objects.cc 774-835) on a body of
\* a specification that was compiled with success: the new object is
\* appended to the list of body b, its id is -1, the objects that are there
\* keep the ids of the last compilation
AddLate(kind, b) ==
  /\ pc = "idle"
  /\ since = "none" /\ compiled
  /\ calls.late < MaxLateAdd
  /\ calls' = [calls EXCEPT !.late = @ + 1]
  /\ b \in DOMAIN heap /\ b \notin freed /\ b \in DOMAIN userSpec
  /\ heap[b].kind = "body"
  /\ kind = "joint" => b # World
  /\ LateAt(kind) \notin DOMAIN heap
  /\ LET a == LateAt(kind)
         f == ListName(kind)
         put(h) == [x \in DOMAIN h \cup {a} |->
                      IF x = a THEN LateObj(kind, b)
                      ELSE IF x = b THEN [h[x] EXCEPT ![f] = Append(@, a)]
                      ELSE h[x]]
     IN /\ heap' = put(heap)
        /\ userSpec' = put(userSpec)
  /\ since' = "added"
  /\ last' = [op |-> "add", ok |-> TRUE, ub |-> FALSE, envfail |-> FALSE,
              precond |-> FALSE, changed |-> FALSE]
  /\ UNCHANGED <<freed, bodies, joints, geoms, meshes, materials, tuples,
                 frames, keys, pairs, excludes, ids, sz, opts, model, prev>>
  /\ UNCHANGED <<driverVars, lrVars>>

NextTree ==
  \/ \E latefail \in LateFails : Compile(latefail, "stale")
  \/ \E kind \in {"body", "joint", "geom"}, b \in DOMAIN heap :
       AddLate(kind, b)
  \/ \E a \in DOMAIN heap :
       \/ SetField(a, "type", "hinge")
       \/ SetField(a, "name", SpareName(heap[a].kind))

SpecTree == InitTree /\ [][NextTree]_vars

\* ------------------------------------------------------------------------
\* Properties of the compile driver
\* ------------------------------------------------------------------------

\* C2: when compile fails, every runtime model and simulation-data structure
\* allocated during the call has been released exactly once.
C2_ReleasedExactlyOnce ==
  (pc = "idle" /\ ret = "failure") =>
    \A o \in 1 .. Len(released) : released[o] = 1

\* C8: an engine error raised during a subcall of compile, on the calling
\* thread or on a length-range worker, never terminates the process and
\* always ends as a compile failure carrying the engine's error.
C8_EngineErrorTrapped ==
  /\ pc # "terminated"
  /\ (pc = "idle" /\ engineErr # "none") =>
       (ret = "failure" /\ errInfo.msg = "engine error")

\* C9: when compile returns, with a model or with a failure, the error and
\* warning handlers in effect are those that were in effect before the call.
C9_HandlersRestored ==
  (pc = "idle" /\ ret # "none") =>
    (tls_error = pre_error /\ tls_warning = pre_warning)

\* a compile that failed on a trapped engine error, called with a user
\* error handler and no warning handler in effect
C9_Witness ==
  /\ pc = "idle" /\ ret = "failure" /\ engineErr = "main"
  /\ pre_error = "user" /\ pre_warning = "none"
  /\ tls_error = "user" /\ tls_warning = "none"

C11_WorkersJoined ==
  pc \notin {"lr_join", "terminated"} => \A w \in Workers : wnext[w] = -1

\* LengthRange threw after three threads had run, two of them with an error
C11_Witness ==
  /\ pc = "catch" /\ lrpath = "multi" /\ nthread = 3
  /\ werr[0] = -1 /\ werr[1] # -1 /\ werr[2] # -1
  /\ \A w \in Workers : wnext[w] = -1

\* the actuators of the slice of thread w, line 1254: start i*num, num of them
Slice(w) == {i \in 0 .. (nu - 1) : w * num <= i /\ i < w * num + num}

\* the actuators of the slice of w for which mj_setLengthRange fails
FailsIn(w) ==
  {i \in Slice(w) :
     i \in lrfail /\ ~LRSkip(LRmode, useexisting,
                             [k \in 1 .. nu |-> InitRange(k - 1)], i)}

\* C12: when the multi-threaded length range fails, the error thrown is the
\* one of the failing thread with the lowest index (the first failure of its
\* slice), whatever the order in which the threads ran.
C12_FirstWorkerErrorWins ==
  (pc = "catch" /\ lrpath = "multi" /\ exc.msg = "length range error") =>
    \E w \in 0 .. (nthread - 1) :
      /\ FailsIn(w) # {}
      /\ \A v \in 0 .. (w - 1) : FailsIn(v) = {}
      /\ exc.act = MinOf(FailsIn(w))

\* two threads failed, the second on actuator 2, the first on actuator 1
C12_Witness ==
  /\ pc = "catch" /\ lrpath = "multi" /\ nthread = 2 /\ nu = 3
  /\ werr[0] = 1 /\ werr[1] = 2
  /\ exc = [msg |-> "length range error", act |-> 1]

\* ------------------------------------------------------------------------
\* Properties of the life of a specification
\* ------------------------------------------------------------------------

\* the objects of a kind and name that exist in the spec
Existing(kind, name) ==
  {a \in (DOMAIN heap) \ freed : heap[a].kind = kind /\ heap[a].name = name}

\* the names of the objects of a kind in a runtime model
NamesOf(mm, kind) ==
  CASE kind = "body" -> mm.body_name [] kind = "joint" -> mm.jnt_name
    [] kind = "geom" -> mm.geom_name [] kind = "mesh" -> mm.mesh_name
    [] kind = "material" -> mm.mat_name [] OTHER -> <<>>

\* id is inside the array of the kind and the object there is called name
RefersTo(mm, kind, id, name) ==
  /\ id + 1 \in 1 .. Len(NamesOf(mm, kind))
  /\ NamesOf(mm, kind)[id + 1] = name

\* C1: a Compile that directly follows a successful Compile of the same
\* spec, with nothing done in between, succeeds and returns an equal model,
\* whatever fusestatic and discardvisual are (failures of the environment,
\* such as a failed allocation, set aside).
C1_CompileIdempotent ==
  (last.op = "compile" /\ prev.since = "none" /\ ~last.envfail) =>
    (last.ok /\ model = prev.model)

\* C3: when Compile has returned, with a model or with a failure, every
\* object the user added still exists, under the same parent, with the
\* field values the user gave.
C3_SpecPreserved ==
  last.op = "compile" =>
    \A a \in DOMAIN userSpec :
      /\ a \notin freed
      /\ [UserPart(heap[a]) EXCEPT !.body = userSpec[a].body] = userSpec[a]
      /\ userSpec[a].kind \in TreeKinds =>
           /\ userSpec[a].body \notin freed
           /\ a \in SeqSet(heap[userSpec[a].body][ListName(userSpec[a].kind)])
           /\ userSpec[a].kind = "geom" => heap[a].body = userSpec[a].body

\* C4: at every point of the life of the spec FindObject(kind, name) reads
\* inside the list, returns an existing object of that kind and name when
\* there is one and null when there is none.
C4_FindObjectCorrect ==
  pc = "idle" =>
    \A kind \in Kinds, name \in Names :
      LET r == findobject(Store, kind, name)
      IN /\ ~r.oob
         /\ Existing(kind, name) # {} => r.res \in Existing(kind, name)
         /\ Existing(kind, name) = {} => r.res = NULL

\* C5: in the model of every successful Compile the mesh of each geom and
\* each tuple entry is an id inside its array that denotes the object the
\* spec named.
C5_ReferencesResolved ==
  (last.op = "compile" /\ last.ok) =>
    /\ \A i \in 1 .. Len(model.geom_dataid) :
         \A a \in DOMAIN userSpec :
           (userSpec[a].kind = "geom" /\ userSpec[a].name = model.geom_name[i]
              /\ userSpec[a].meshname # "") =>
             RefersTo(model, "mesh", model.geom_dataid[i], userSpec[a].meshname)
    /\ \A i \in 1 .. Len(model.tuple_objid) :
         \A j \in 1 .. Len(model.tuple_objid[i]) :
           RefersTo(model, model.tuple_objtype[i][j], model.tuple_objid[i][j],
                    heap[tuples[i]].objname[j])

\* C6: Compile gives M, CopyBack(M) follows, then Compile succeeds and
\* returns a model equal to M (failures of the environment set aside).
C6_CopyBackThenCompile ==
  (last.op = "compile" /\ prev.since = "copyback" /\ ~last.envfail) =>
    (last.ok /\ model = prev.model)

\* C7: CopyBack returns false, records an error and changes no field when
\* the model is absent, the spec is not compiled, or a size of the model
\* (the number of keyframes included) differs from the size in the spec.
C7_CopyBackRefuses ==
  (last.op = "copy_back" /\ last.precond) =>
    (~last.ok /\ errInfo.msg # "" /\ ~last.changed)

\* ------------------------------------------------------------------------
\* Properties of the compiled kinematic tree
\* ------------------------------------------------------------------------

\* dof j is a proper ancestor of dof i along dof_parentid (dofs from 0)
RECURSIVE IsAncestor(_, _, _)
IsAncestor(mm, j, i) ==
  LET p == mm.dof_parentid[i + 1]
  IN p >= 0 /\ (p = j \/ (p < i /\ IsAncestor(mm, j, p)))

Ancestors(mm, i) == {j \in 0 .. (mm.sz.nv - 1) : IsAncestor(mm, j, i)}

\* dof_Madr[i], with dof_Madr[nv] read as nM
Madr(mm, i) == IF i = mm.sz.nv THEN mm.sz.nM ELSE mm.dof_Madr[i + 1]

RECURSIVE SumTo(_, _)
SumTo(mm, i) ==
  IF i < 0 THEN 0 ELSE 1 + Cardinality(Ancestors(mm, i)) + SumTo(mm, i - 1)

\* C13: in every compiled model dof_Madr[0] = 0, dof_Madr[i+1] - dof_Madr[i]
\* is 1 plus the number of proper ancestors of dof i along dof_parentid
\* (dof_Madr[nv] read as nM), nM is the sum of these values over the dofs
\* and nD = 2*nM - nv.
C13_MadrLayout ==
  model.valid =>
    /\ Len(model.dof_parentid) = model.sz.nv
    /\ Len(model.dof_Madr) = model.sz.nv
    /\ Madr(model, 0) = 0
    /\ \A i \in 0 .. (model.sz.nv - 1) :
         Madr(model, i + 1) - Madr(model, i)
           = 1 + Cardinality(Ancestors(model, i))
    /\ model.sz.nM = SumTo(model, model.sz.nv - 1)
    /\ model.sz.nD = 2 * model.sz.nM - model.sz.nv

\* a compiled model with two kinematic trees, in one of them a dof with
\* three proper ancestors
C13_Witness ==
  /\ model.valid /\ last.op = "compile" /\ last.ok
  /\ \E i \in 0 .. (model.sz.nv - 1) : Cardinality(Ancestors(model, i)) = 3
  /\ Cardinality({i \in 0 .. (model.sz.nv - 1) :
                    model.dof_parentid[i + 1] = -1}) = 2

RECURSIVE SeqSum(_)
SeqSum(q) == IF q = <<>> THEN 0 ELSE Head(q) + SeqSum(Tail(q))

\* position and velocity coordinates of (free, ball, hinge, slide)
PosCoords == [free |-> 7, ball |-> 4, hinge |-> 1, slide |-> 1]
VelCoords == [free |-> 6, ball |-> 3, hinge |-> 1, slide |-> 1]

\* C14: in every compiled model, after static fusion and on a recompile
\* too, the sum of body_dofnum over the bodies is nv and the sum of
\* nPOS[type] over the joints is nq, with nPOS = (7,4,1,1) and
\* nVEL = (6,3,1,1) for (free, ball, hinge, slide).
C14_DofCounts ==
  model.valid =>
    /\ SeqSum(model.body_dofnum) = model.sz.nv
    /\ SeqSum([i \in 1 .. Len(model.jnt_type) |->
                 PosCoords[model.jnt_type[i]]]) = model.sz.nq
    /\ SeqSum([i \in 1 .. Len(model.jnt_type) |->
                 VelCoords[model.jnt_type[i]]]) = model.sz.nv

\* the second compile of a specification from which the first compile
\* fused a body away, with a free joint and a ball joint in the model
C14_Witness ==
  /\ last.op = "compile" /\ last.ok /\ calls.compile = 2
  /\ prev.model.valid /\ opts.fusestatic
  /\ model.sz.nbody = 3
  /\ \E i, j \in 1 .. Len(model.jnt_type) :
       model.jnt_type[i] = "free" /\ model.jnt_type[j] = "ball"
  /\ model.sz.nq = 11 /\ model.sz.nv = 9

\* C15: in every compiled model body_weldid[b] = b when body b has a joint,
\* and body_weldid[parent(b)] otherwise (0 for the world); also for the
\* bodies that static fusion left and renumbered.
C15_WeldIds ==
  model.valid =>
    \A b \in 0 .. (model.sz.nbody - 1) :
      model.body_weldid[b + 1] =
        IF model.body_jntnum[b + 1] > 0 THEN b
        ELSE IF b = 0 THEN 0
        ELSE model.body_weldid[model.body_parentid[b + 1] + 1]

\* static fusion removed b1 and renumbered b2 and b3, which carry joints
C15_Witness ==
  /\ last.op = "compile" /\ last.ok /\ opts.fusestatic
  /\ model.body_name = <<"world", "b2", "b3">>
  /\ model.body_parentid = <<0, 0, 1>>
  /\ model.body_weldid = <<0, 1, 2>>

\* without fusion a body without joints below a body with joints is welded
\* to it
C15_WitnessStatic ==
  /\ last.op = "compile" /\ last.ok /\ ~opts.fusestatic
  /\ \E b \in 1 .. (model.sz.nbody - 1) :
       /\ model.body_jntnum[b + 1] = 0
       /\ model.body_weldid[b + 1] = model.body_parentid[b + 1]
       /\ model.body_weldid[b + 1] > 0

NonDecreasing(q) == \A i, j \in 1 .. Len(q) : i < j => q[i] <= q[j]

\* C16: in every compiled model every contact pair and every exclude has
\* body1 <= body2 and signature = (body1 << 16) + body2, both lists are in
\* non-decreasing order of signature, and the ids are the positions in
\* that order.
C16_PairsSorted ==
  (last.op = "compile" /\ last.ok) =>
    /\ Len(model.pair_signature) = Len(pairs)
    /\ Len(model.exclude_signature) = Len(excludes)
    /\ \A i \in 1 .. Len(pairs) :
         LET o == heap[pairs[i]]
             g1 == model.pair_geom1[i]
             g2 == model.pair_geom2[i]
             b1 == model.geom_bodyid[g1 + 1]
             b2 == model.geom_bodyid[g2 + 1]
         IN /\ {model.geom_name[g1 + 1], model.geom_name[g2 + 1]}
                 = {o.name1, o.name2}
            /\ b1 <= b2
            /\ model.pair_signature[i] = b1 * 65536 + b2
            /\ o.id = i - 1
    /\ \A i \in 1 .. Len(excludes) :
         LET o == heap[excludes[i]]
         IN /\ o.body1 \in 0 .. (model.sz.nbody - 1)
            /\ o.body2 \in 0 .. (model.sz.nbody - 1)
            /\ {model.body_name[o.body1 + 1], model.body_name[o.body2 + 1]}
                 = {o.name1, o.name2}
            /\ o.body1 <= o.body2
            /\ model.exclude_signature[i] = o.body1 * 65536 + o.body2
            /\ o.id = i - 1
    /\ NonDecreasing(model.pair_signature)
    /\ NonDecreasing(model.exclude_signature)

\* a compiled model whose pairs and excludes were both swapped and reordered
C16_Witness ==
  /\ last.op = "compile" /\ last.ok
  /\ pairs = <<PairsAt[2], PairsAt[1]>>
  /\ excludes = <<ExcludesAt[2], ExcludesAt[1]>>
  /\ model.pair_signature = <<65538, 65539>>
  /\ model.exclude_signature = <<2, 131075>>

\* the specification places a free joint on a body that is not a child of
\* the world, or on a body with another joint
MisplacedFreeJoint(us) ==
  \E a \in DOMAIN us :
    /\ us[a].kind = "joint" /\ us[a].type = "free"
    /\ \/ us[us[a].body].body # World
       \/ Len(us[us[a].body].joints) > 1

\* C17: compile fails whenever the specification places a free joint on a
\* body whose parent is not the world, or on a body that has another
\* joint, whatever the options, fuse_static included.
C17_FreeJointRejected ==
  (last.op = "compile" /\ MisplacedFreeJoint(userSpec)) => ~last.ok

\* world -> A (mass 2, ipos 1) -> B (mass 3, ipos 0), no joints, nothing
\* else; and the same with a hinge joint on A
ScenarioC == Scene(<<World, BodyAt(1), World>>, <<<<>>, <<>>, <<>>>>, "bare")
ScenarioCHinged ==
  Scene(<<World, BodyAt(1), World>>, <<<<"hinge">>, <<>>, <<>>>>, "bare")

\* the bodies of the model that have mass
InertialBodies(mm) == {b \in 1 .. Len(mm.body_mass) : mm.body_mass[b] > 0}

FirstCompileOf(scene) ==
  /\ last.op = "compile" /\ ~last.envfail /\ calls.compile = 1
  /\ opts.fusestatic /\ userSpec = scene

\* C18: compiling world -> A (no joints, mass 2, ipos (1,0,0)) -> B (no
\* joints, mass 3, ipos (0,0,0)) with fuse_static yields a model with one
\* fused inertial body of mass 5 and inertial position (0.4,0,0) (48 in
\* units of 1/120).
C18_ScenarioC ==
  FirstCompileOf(ScenarioC) =>
    /\ last.ok
    /\ \E b \in InertialBodies(model) :
         /\ InertialBodies(model) = {b}
         /\ model.body_mass[b] = 5 /\ model.body_ipos[b] = 48

\* C18 as the code has it: the mass of a body fused into the world is
\* dropped, so the model of that spec is the world alone, with mass 0; with
\* a hinge joint on A, B is fused into A, which gets mass 5 and inertial
\* position (0.4,0,0).
C18_FusedMass ==
  /\ FirstCompileOf(ScenarioC) =>
       /\ last.ok
       /\ model.body_name = <<"world">>
       /\ model.body_mass = <<0>> /\ model.body_ipos = <<0>>
  /\ FirstCompileOf(ScenarioCHinged) =>
       /\ last.ok
       /\ model.body_name = <<"world", "b1">>
       /\ model.body_mass = <<0, 5>> /\ model.body_ipos = <<0, 48>>

C18_Witness ==
  FirstCompileOf(ScenarioC) /\ last.ok /\ model.sz.nbody = 1

C18_WitnessHinged ==
  FirstCompileOf(ScenarioCHinged) /\ last.ok /\ model.body_mass = <<0, 5>>

\* the kinds of named objects of a specification
NamedKinds == Kinds \cup {"frame"}

\* the non-empty names that two objects of the kind carry in specification us
DupNames(us, kind) ==
  {us[a].name : a \in {x \in DOMAIN us :
                         /\ us[x].kind = kind /\ us[x].name # ""
                         /\ \E y \in DOMAIN us :
                              /\ y # x /\ us[y].kind = kind
                              /\ us[y].name = us[x].name}}

NoRepeats(q) == \A i, j \in 1 .. Len(q) : (i # j /\ q[i] # "") => q[i] # q[j]

\* C19: when two objects of one kind carry the same non-empty name, compile
\* fails and the error message is "repeated name '<name>' in <kind>" for a
\* name that two objects of that kind carry; and in every compiled model no
\* two objects of one kind share a non-empty name.
C19_RepeatedNames ==
  /\ (last.op = "compile" /\ \E kind \in NamedKinds : DupNames(userSpec, kind) # {})
       => /\ ~last.ok
          /\ \E kind \in NamedKinds : \E n \in DupNames(userSpec, kind) :
               errInfo.msg = "repeated name '" \o n \o "' in " \o kind
  /\ (last.op = "compile" /\ last.ok)
       => /\ NoRepeats(model.body_name) /\ NoRepeats(model.jnt_name)
          /\ NoRepeats(model.geom_name) /\ NoRepeats(model.mesh_name)
          /\ NoRepeats(model.mat_name)

\* what Compile returns for a specification with the content us that was
\* built and never compiled before, when no step outside the specification
\* fails
FreshCompile(us, fuse, discard) ==
  LET s2 == TryCompileLists(FreshStore(us), fuse, discard)
      s3 == IF s2.err # "" THEN s2 ELSE CopyTree(s2)
      mm == MakeModel(s3)
  IN IF s3.err = "" /\ ValidReferences(mm) THEN mm ELSE NoModel

\* C20: a failed compile leaves nothing behind: when compile failed at some
\* step, steps after the packing of the kinematic tree included, and the
\* user corrected only the values the error was about, the next compile
\* succeeds and returns the model that a freshly built specification with
\* the corrected content compiles to.
C20_FailureLeavesNothing ==
  (last.op = "compile" /\ prev.since \in {"failed", "corrected"}
     /\ ~last.envfail) =>
    \A fresh \in {FreshCompile(userSpec, opts.fusestatic, opts.discardvisual)} :
      fresh.valid => (last.ok /\ model = fresh)


\* ------------------------------------------------------------------------
\* Recompiling an edited specification

\* position i of the list holds the object with id i - 1
IdsArePositions(q) == \A i \in 1 .. Len(q) : heap[q[i]].id = i - 1

\* C22: when compile is left by an exception other than the structured
\* compile error (abnormal unwinding, as on an allocation failure), the error
\* and warning handlers that were in effect before the call are in effect
\* again.
C22_HandlersRestoredOnUnwind ==
  pc = "unwound" => (tls_error = pre_error /\ tls_warning = pre_warning)

\* the leaves of the bounding volume hierarchies of the model that point to
\* geom g, each as <<body, leaf>>
LeavesOf(mm, g) ==
  {bl \in {<<b, i>> : b \in 1 .. Len(mm.bvh_nodeid), i \in 1 .. 4} :
     /\ bl[2] <= Len(mm.bvh_nodeid[bl[1]])
     /\ mm.bvh_nodeid[bl[1]][bl[2]] = g}

\* C23: in every compiled model, with or without fusion of static bodies,
\* each colliding geom is referenced by exactly one leaf of the bounding
\* volume hierarchy of the body it is attached to in that model, and the
\* node counts of the bodies add up to the number of body nodes allocated.
C23_BVHCoversGeoms ==
  (last.op = "compile" /\ last.ok) =>
    /\ \A g \in 1 .. Len(model.geom_contype) :
         model.geom_contype[g] # 0 =>
           LeavesOf(model, g - 1) = {bl \in LeavesOf(model, g - 1) :
                                      bl[1] = model.geom_bodyid[g] + 1}
           /\ Cardinality(LeavesOf(model, g - 1)) = 1
    /\ SeqSum(model.body_bvhnum) = model.sz.nbvhstatic

\* the lists of the model, one for each kind of object that has ids
IdLists == <<bodies, joints, geoms, meshes, materials, pairs, excludes,
             tuples, keys>>

\* C24: after every successful compile the object at position i of the list
\* of its kind has id i, for every kind: the ids of a kind are 0 .. n-1
\* without gaps or repeats, also after the removal of visual objects, the
\* sorting of pairs and excludes, and the fusion of static bodies.
C24_IdsArePositions ==
  (last.op = "compile" /\ last.ok) =>
    \A k \in 1 .. Len(IdLists) : IdsArePositions(IdLists[k])

\* the two contact pairs changed places in the sort and were renumbered
C24_Witness ==
  /\ last.op = "compile" /\ last.ok
  /\ pairs = <<PairsAt[2], PairsAt[1]>>
  /\ heap[PairsAt[2]].id = 0 /\ heap[PairsAt[1]].id = 1

\* static bodies were fused and the bodies, joints and geoms renumbered
C24_WitnessFused ==
  /\ last.op = "compile" /\ last.ok
  /\ freed # {} /\ Len(bodies) > 1 /\ Len(joints) > 0 /\ Len(geoms) > 1

\* the visual geom of b1 was removed and the geoms behind it renumbered
C24_WitnessDiscard ==
  /\ last.op = "compile" /\ last.ok
  /\ GeomAt(1) \in freed /\ geoms = <<GeomAt(2), GeomAt(3)>>
  /\ heap[GeomAt(2)].id = 0

\* C25: with fuse_static on and none of the objects that refer to others by
\* id in the spec, the fusion ends for every body tree, and in the compiled
\* model no body other than the world is both without joints and not a
\* mocap body.
C25_NoStaticBodyLeft ==
  (last.op = "compile" /\ last.ok /\ opts.fusestatic
     /\ pairs = <<>> /\ excludes = <<>> /\ tuples = <<>>) =>
    \A b \in 2 .. Len(model.body_jntnum) :
      model.body_jntnum[b] > 0 \/ model.body_mocapid[b] >= 0

\* two static bodies were fused, the mocap body b3 and a body with a joint
\* stayed
C25_Witness ==
  /\ last.op = "compile" /\ last.ok /\ opts.fusestatic
  /\ model.body_name = <<"world", "b1", "b3">>
  /\ model.body_jntnum = <<0, 1, 0>> /\ model.body_mocapid = <<-1, -1, 0>>
  /\ BodyAt(2) \in freed

\* address of the first dof of body b (bodies counted from 1, dofs from 0):
\* the dofs are packed body after body
DofAdr(mm, b) == SeqSum(SubSeq(mm.body_dofnum, 1, b - 1))

\* the body that dof d belongs to
DofBody(mm, dof) ==
  CHOOSE b \in 1 .. Len(mm.body_dofnum) :
    DofAdr(mm, b) <= dof /\ dof < DofAdr(mm, b) + mm.body_dofnum[b]

\* the last dof of the nearest proper ancestor of body b that has dofs, -1
\* if there is none
RECURSIVE LastDofAbove(_, _)
LastDofAbove(mm, b) ==
  IF b = 1 THEN -1
  ELSE LET p == mm.body_parentid[b] + 1
       IN IF mm.body_dofnum[p] > 0
            THEN DofAdr(mm, p) + mm.body_dofnum[p] - 1
          ELSE LastDofAbove(mm, p)

\* C28: for every dof d of a compiled model: when d is not the first dof of
\* its body, dof_parentid[d] = d - 1; when it is the first, dof_parentid[d]
\* is the last dof of the nearest ancestor body that has dofs, or -1 when no
\* ancestor has one. So dof_parentid[d] < d, and every chain ends at -1.
C28_DofParents ==
  model.valid =>
    \A dof \in 0 .. (model.sz.nv - 1) :
      LET b == DofBody(model, dof)
      IN /\ model.dof_parentid[dof + 1] =
              IF dof > DofAdr(model, b) THEN dof - 1
              ELSE LastDofAbove(model, b)
         /\ model.dof_parentid[dof + 1] < dof
         /\ model.dof_parentid[dof + 1] >= -1

\* b1 with a hinge, b2 below it without joints, b3 below b2 with a ball:
\* the first dof of b3 hangs on the dof of b1, across b2
C28_Witness ==
  /\ last.op = "compile" /\ last.ok /\ ~opts.fusestatic
  /\ model.body_parentid = <<0, 0, 1, 2>>
  /\ model.body_dofnum = <<0, 1, 0, 3>>
  /\ model.dof_parentid = <<-1, 0, 1, 2>>

\* the joints of body b of the model (bodies and joints counted from 1)
JointsOf(mm, b) == {j \in 1 .. Len(mm.jnt_bodyid) : mm.jnt_bodyid[j] = b - 1}

\* body b is its own root or its parent is a jointless child of the world,
\* it has no inertial offset, all its joints are at the origin of the body
\* and along one axis, and none of them follows a ball or hinge joint
SimpleByRule(mm, b) ==
  LET p == mm.body_parentid[b] + 1
  IN /\ \/ b = 1 \/ p = 1
        \/ mm.body_parentid[p] = 0 /\ mm.body_jntnum[p] = 0
     /\ mm.body_ipos[b] = 0
     /\ \A j \in JointsOf(mm, b) :
          /\ mm.jnt_pos[j] = 0
          /\ mm.jnt_type[j] \in {"hinge", "slide"} => mm.jnt_axisnz[j] <= 1
          /\ \A r \in JointsOf(mm, b) :
               r < j => mm.jnt_type[r] \notin {"ball", "hinge"}

\* body b has at least one joint and all its joints are slides
SlidesOnly(mm, b) ==
  /\ JointsOf(mm, b) # {}
  /\ \A j \in JointsOf(mm, b) : mm.jnt_type[j] = "slide"

\* body b is the world or no body has it as its parent
Childless(mm, b) ==
  b = 1 \/ \A c \in 2 .. Len(mm.body_parentid) : mm.body_parentid[c] # b - 1

C21_LateAddCompiles ==
  (last.op = "compile" /\ prev.since = "added" /\ ~last.envfail) =>
    \A fresh \in {FreshCompile(userSpec, opts.fusestatic, opts.discardvisual)} :
      fresh.valid =>
        /\ last.ok
        /\ IdsArePositions(bodies) /\ IdsArePositions(joints)
        /\ IdsArePositions(geoms)

\* ------------------------------------------------------------------------
\* Height fields given in memory: a specification that holds the world and
\* one height field; the other phases of Compile and CopyBack have nothing
\* to work on
\* ------------------------------------------------------------------------

\* largest number of rows and of columns of the elevation grid
MaxGrid == 2

\* the elevations a user writes into a cell
Elevations == 0 .. 2

\* where the height field of mjs_addHField lives
HFieldAt == 70

\* mjCHField::mjCHField with the data the user wrote through the spec
\* (user_objects.cc 2615-2631): nrow * ncol elevations, row after row
HField(nrow, ncol, elevation) ==
  [kind |-> "hfield", name |-> "hf", id |-> 0, nrow |-> nrow, ncol |-> ncol,
   spec_userdata |-> elevation, userdata |-> elevation, data |-> <<>>]

\* the vector that get_userdata() returns: the working copy userdata_
get_userdata(o) == o.userdata

\* mjCHField::Compile, user_objects.cc 2836-2849: the elevations are moved
\* to the range [0, 1], here in units of 1/2
Normalize(data) ==
  LET emin == MinOf(SeqSet(data))
      emax == -MinOf({-x : x \in SeqSet(data)})
  IN [i \in 1 .. Len(data) |->
        IF emax - emin > 0 THEN ((data[i] - emin) * 2) \div (emax - emin)
        ELSE data[i] - emin]

\* mjCHField::CopyFromSpec and Compile, user_objects.cc 2646-2665 and
\* 2769-2849, for a height field without a file: the working copy is reset
\* from the spec, the data are a copy of the user data, cell by cell
HFieldCompile(o) ==
  LET u == o.spec_userdata
  IN IF o.nrow < 1 \/ o.ncol < 1 \/ u = <<>>
       THEN [obj |-> [o EXCEPT !.userdata = u, !.data = <<>>],
             err |-> "hfield not specified"]
     ELSE [obj |-> [o EXCEPT !.userdata = u, !.data = Normalize(u)],
           err |-> ""]

\* CopyObjects, lines 2134-2148: sizes and data of the height field
HFieldModel(o) ==
  [valid |-> TRUE, sz |-> [nhfield |-> 1, nhfielddata |-> o.nrow * o.ncol],
   hfield_nrow |-> <<o.nrow>>, hfield_ncol |-> <<o.ncol>>,
   hfield_adr |-> <<0>>, hfield_data |-> o.data]

\* CopyBack, lines 3390-3406: row j of the model goes to row nrow-1-j of
\* the user data
FlipRows(modeldata, nrow, ncol) ==
  [i \in 1 .. (nrow * ncol) |->
     LET flip == (i - 1) \div ncol
         c == (i - 1) % ncol
         j == nrow - 1 - flip
     IN modeldata[j * ncol + c + 1]]

InitHField ==
  /\ InitDriver /\ InitLR
  /\ \E nrow \in 0 .. MaxGrid, ncol \in 0 .. MaxGrid :
       \E elevation \in [1 .. (nrow * ncol) -> Elevations] :
         /\ (nrow = 0 \/ ncol = 0) => (nrow = 0 /\ ncol = 0)
         /\ heap = (World :> WorldBody) @@
                    (HFieldAt :> HField(nrow, ncol, elevation))
  /\ freed = {}
  /\ bodies = <<World>>
  /\ joints = <<>> /\ geoms = <<>> /\ meshes = <<>> /\ materials = <<>>
  /\ tuples = <<>> /\ frames = <<>> /\ keys = <<>>
  /\ pairs = <<>> /\ excludes = <<>>
  /\ ids = EmptyIds
  /\ sz = NoSizes
  /\ opts = [fusestatic |-> FALSE, discardvisual |-> FALSE]
  /\ model = NoModel
  /\ prev = [model |-> NoModel, since |-> "touched"]
  /\ since = "touched"
  /\ userSpec = heap
  /\ last = [op |-> "none", ok |-> FALSE, ub |-> FALSE, envfail |-> FALSE,
             precond |-> FALSE, changed |-> FALSE]
  /\ calls = [compile |-> 0, copyback |-> 0, late |-> 0, edit |-> 0]

\* mjCModel::Compile, lines 2739-2805, on the world and one height field
CompileHField ==
  /\ pc = "idle"
  /\ calls.compile < MaxCompile
  /\ calls' = [calls EXCEPT !.compile = @ + 1]
  /\ \E c \in {HFieldCompile(heap[HFieldAt])} :
       /\ heap' = [heap EXCEPT ![HFieldAt] = c.obj]
       /\ errInfo' = [msg |-> c.err, act |-> -1]
       /\ compiled' = (c.err = "")
       /\ model' = IF c.err = "" THEN HFieldModel(c.obj) ELSE NoModel
       /\ since' = IF c.err = "" THEN "none" ELSE "failed"
       /\ last' = [op |-> "compile", ok |-> (c.err = ""), ub |-> FALSE,
                   envfail |-> FALSE, precond |-> FALSE, changed |-> FALSE]
  /\ prev' = [model |-> model, since |-> since]
  /\ UNCHANGED <<freed, bodies, joints, geoms, meshes, materials, tuples,
                 frames, keys, pairs, excludes, ids, sz, opts, userSpec>>
  /\ UNCHANGED <<pc, m, d, released, exc, tls_error, tls_warning, save_error,
                 save_warning, pre_error, pre_warning, ret, engineErr, lrVars>>

\* the models a caller hands to CopyBack: the one Compile returned, or that
\* one with the first cell of the grid changed
HFieldVariants(mm) ==
  {mm} \cup (IF mm.valid
               THEN {[mm EXCEPT !.hfield_data[1] = IF @ = 0 THEN 2 ELSE 0]}
             ELSE {})

\* mjCModel::CopyBack, lines 3253-3556, on the world and one height field
CopyBackHField(mm) ==
  /\ pc = "idle"
  /\ calls.copyback < MaxCopyBack
  /\ calls' = [calls EXCEPT !.copyback = @ + 1]
  /\ LET o == heap[HFieldAt]
         refused == IF ~mm.valid THEN "mjModel pointer is null in CopyBack"
                    ELSE IF ~compiled
                      THEN "mjCModel has not been compiled in CopyBack"
                    ELSE ""
         size == Len(get_userdata(o))
     IN /\ IF refused # ""
             THEN /\ errInfo' = [msg |-> refused, act |-> -1]
                  /\ heap' = heap
                  /\ since' = since
             ELSE /\ errInfo' = errInfo
                  /\ heap' = IF size # 0
                               THEN [heap EXCEPT ![HFieldAt].userdata =
                                       FlipRows(mm.hfield_data,
                                                mm.hfield_nrow[1],
                                                mm.hfield_ncol[1])]
                             ELSE heap
                  /\ since' = IF mm = model /\ since \in {"none", "copyback"}
                                THEN "copyback" ELSE "touched"
        /\ last' = [op |-> "copy_back", ok |-> (refused = ""), ub |-> FALSE,
                    envfail |-> FALSE, precond |-> (refused # ""),
                    changed |-> (heap' # heap)]
  /\ UNCHANGED <<freed, bodies, joints, geoms, meshes, materials, tuples,
                 frames, keys, pairs, excludes, ids, sz, opts, model, prev,
                 userSpec, compiled>>
  /\ UNCHANGED <<pc, m, d, released, exc, tls_error, tls_warning, save_error,
                 save_warning, pre_error, pre_warning, ret, engineErr, lrVars>>

NextHField ==
  \/ CompileHField
  \/ \E mm \in HFieldVariants(model) : CopyBackHField(mm)

SpecHField == InitHField /\ [][NextHField]_vars

\* row r (from 0) of a grid with ncol columns
RowOf(data, ncol, r) == SubSeq(data, r * ncol + 1, (r + 1) * ncol)

\* C26: for a height field given in memory, a compile followed by a
\* copy_back of the unmodified model leaves the rows of elevations in the
\* row order of the user: row r of the data after the copy is row r of what
\* the user wrote (with the elevations scaled to [0, 1]).
C26_HFieldRowsKept ==
  (last.op = "copy_back" /\ last.ok /\ since = "copyback") =>
    LET o == heap[HFieldAt]
    IN \A r \in 0 .. (o.nrow - 1) :
         RowOf(get_userdata(o), o.ncol, r)
           = RowOf(Normalize(o.spec_userdata), o.ncol, r)

\* ------------------------------------------------------------------------
\* Large trees: a specification whose tree is the world with ntree - 1
\* bodies below it, body i (in pre-order) named after i, nflex flexes, and
\* two excludes that name bodies; the tree is kept as its size, not body by
\* body
\* ------------------------------------------------------------------------

\* the sizes of the tree (world included) and the numbers of flexes a user
\* builds, around the limits 65534 and 2^16
TreeSizes == {2, 3, 65533, 65534, 65535, 65538, 131074}
FlexCounts == {0, 1, 65532, 65533}

\* the excludes a user adds, each as the two bodies it names by their place
\* in the pre-order
Excluded == {<<0, 131073>>, <<1, 65537>>, <<2, 1>>, <<1, 0>>, <<0, 1>>}

\* TryCompile, lines 2820-2823: the test on the sizes of the body list and
\* of the flex list of the model
TooMany(nbodies, nflexes) == nbodies + nflexes >= 65534

\* mjCBodyPair::Compile, user_objects.cc 3898-3932, for the exclude that
\* names bodies e[1] and e[2] in a tree of nbody bodies: the ids are the
\* places in the pre-order, the smaller id first
BigBodyPair(e, nbody) ==
  IF e[1] >= nbody \/ e[2] >= nbody
    THEN [err |-> "body not found in bodypair", body1 |-> -1, body2 |-> -1,
          signature |-> -1]
  ELSE LET b1 == IF e[1] > e[2] THEN e[2] ELSE e[1]
           b2 == IF e[1] > e[2] THEN e[1] ELSE e[2]
       IN [err |-> "", body1 |-> b1, body2 |-> b2,
           signature |-> Signature(b1, b2)]

InitBig ==
  /\ InitDriver /\ InitLR
  /\ heap = (World :> WorldBody)
  /\ freed = {}
  /\ bodies = <<World>>
  /\ joints = <<>> /\ geoms = <<>> /\ meshes = <<>> /\ materials = <<>>
  /\ tuples = <<>> /\ frames = <<>> /\ keys = <<>>
  /\ pairs = <<>> /\ excludes = <<>>
  /\ ids = EmptyIds
  /\ sz = NoSizes
  /\ opts = [fusestatic |-> FALSE, discardvisual |-> FALSE]
  /\ model = NoModel
  /\ prev = [model |-> NoModel, since |-> "touched"]
  /\ since = "touched"
  /\ userSpec \in [ntree : TreeSizes, nflex : FlexCounts,
                   excludes : {<<e1, e2>> : e1, e2 \in Excluded}]
  /\ \A i, j \in 1 .. 2 : userSpec.excludes[i][j] < userSpec.ntree
  /\ last = [op |-> "none", ok |-> FALSE, ub |-> FALSE, envfail |-> FALSE,
             precond |-> FALSE, changed |-> FALSE]
  /\ calls = [compile |-> 0, copyback |-> 0, late |-> 0, edit |-> 0]

\* mjCModel::Compile, lines 2739-2805, on such a specification. When the
\* sizes are tested the body list of the model holds the world alone: the
\* constructor, the start of a recompilation and the catch block leave it
\* so, and MakeLists, which adds the bodies of the tree, runs later.
CompileBig ==
  /\ pc = "idle"
  /\ calls.compile < MaxCompile
  /\ calls' = [calls EXCEPT !.compile = @ + 1]
  /\ LET nbody == userSpec.ntree
         ex == [i \in 1 .. 2 |-> BigBodyPair(userSpec.excludes[i], nbody)]
         err == IF TooMany(Len(bodies), userSpec.nflex)
                  THEN "number of bodies plus flexes must be less than 65534"
                ELSE IF ex[1].err # "" THEN ex[1].err
                ELSE ex[2].err
         sorted == IF ex[2].signature < ex[1].signature THEN <<ex[2], ex[1]>>
                   ELSE ex
     IN /\ errInfo' = [msg |-> err, act |-> -1]
        /\ compiled' = (err = "")
        /\ model' = IF err # "" THEN NoModel
                    ELSE [valid |-> TRUE,
                          sz |-> [nbody |-> nbody, nflex |-> userSpec.nflex,
                                  nexclude |-> 2],
                          exclude_body1 |-> [i \in 1 .. 2 |-> sorted[i].body1],
                          exclude_body2 |-> [i \in 1 .. 2 |-> sorted[i].body2],
                          exclude_signature |->
                            [i \in 1 .. 2 |-> sorted[i].signature]]
        /\ since' = IF err = "" THEN "none" ELSE "failed"
        /\ last' = [op |-> "compile", ok |-> (err = ""), ub |-> FALSE,
                    envfail |-> FALSE, precond |-> FALSE, changed |-> FALSE]
  /\ prev' = [model |-> model, since |-> since]
  /\ UNCHANGED <<heap, freed, bodies, joints, geoms, meshes, materials,
                 tuples, frames, keys, pairs, excludes, ids, sz, opts,
                 userSpec>>
  /\ UNCHANGED <<pc, m, d, released, exc, tls_error, tls_warning, save_error,
                 save_warning, pre_error, pre_warning, ret, engineErr, lrVars>>

NextBig == CompileBig

SpecBig == InitBig /\ [][NextBig]_vars

\* C27: compile fails with "number of bodies plus flexes must be less than
\* 65534" whenever the bodies of the tree of the spec (world included) and
\* the flexes are 65534 or more together; so every body id of a compiled
\* model fits in 16 bits, and two excludes of a compiled model have the same
\* signature only if they have the same bodies.
C27_TooManyBodiesRejected ==
  /\ (last.op = "compile" /\ userSpec.ntree + userSpec.nflex >= 65534) =>
       /\ ~last.ok
       /\ errInfo.msg = "number of bodies plus flexes must be less than 65534"
  /\ (last.op = "compile" /\ last.ok) =>
       /\ model.sz.nbody <= 65536
       /\ model.exclude_signature[1] = model.exclude_signature[2] =>
            /\ model.exclude_body1[1] = model.exclude_body1[2]
            /\ model.exclude_body2[1] = model.exclude_body2[2]


\* ---- The names map ----

\* the name columns of the runtime model in the order of their segments
KindNames(mm) ==
  <<mm.body_name, mm.jnt_name, mm.geom_name, mm.mesh_name, mm.mat_name,
    mm.pair_name, mm.exclude_name, mm.tuple_name, mm.key_name>>

\* where the segment of the k-th kind starts
SegmentBase(lists, k) ==
  mjLOAD_MULTIPLE * SumOver(SubSeq(lists, 1, k - 1), LAMBDA q : Len(q), 1)

\* the slots a probe visits going from slot h to slot s
ProbePath(h, s, cap) == {(h + e) % cap : e \in 0 .. ((s - h + cap) % cap)}

\* a lookup by exact name: probe from the hashed slot until the name matches
\* or an empty slot is met; -2 if neither happens within the segment
RECURSIVE LookupFrom(_, _, _, _, _, _)
LookupFrom(map, base, names, name, j, steps) ==
  LET cap == mjLOAD_MULTIPLE * Len(names)
      v == map[base + j + 1]
  IN IF steps = cap THEN -2
     ELSE IF v = -1 THEN -1
     ELSE IF names[v + 1] = name THEN v
     ELSE LookupFrom(map, base, names, name, (j + 1) % cap, steps + 1)

Lookup(map, base, names, name) ==
  IF names = <<>> THEN -1
  ELSE LookupFrom(map, base, names, name,
                  mj_hashdjb2(name, mjLOAD_MULTIPLE * Len(names)), 0)

\* the slots of a segment that hold entity id
SlotsOf(map, base, cap, id) == {s \in 0 .. (cap - 1) : map[base + s + 1] = id}

\* C30: in every compiled model each kind owns a names-map segment of
\* LOAD_MULTIPLE times its number of entities, the segments follow one another
\* without overlap, and every entity with a non-empty name sits in exactly one
\* slot of its kind's segment, reached by linear probing from its hashed slot
\* without passing an empty slot, so that a lookup by its name finds it.
C30_NamesMap ==
  model.valid =>
    LET lists == KindNames(model)
        map == model.names_map
    IN /\ Len(map) = SegmentBase(lists, Len(lists) + 1)
       /\ \A k \in 1 .. Len(lists) :
            LET names == lists[k]
                base == SegmentBase(lists, k)
                cap == mjLOAD_MULTIPLE * Len(names)
            IN /\ base + cap = SegmentBase(lists, k + 1)
               /\ \A s \in 0 .. (cap - 1) :
                    map[base + s + 1] \in -1 .. (Len(names) - 1)
               /\ \A i \in 1 .. Len(names) :
                    IF names[i] = ""
                      THEN SlotsOf(map, base, cap, i - 1) = {}
                    ELSE /\ Cardinality(SlotsOf(map, base, cap, i - 1)) = 1
                         /\ \A s \in SlotsOf(map, base, cap, i - 1) :
                              \A t \in ProbePath(mj_hashdjb2(names[i], cap),
                                                 s, cap) :
                                map[base + t + 1] # -1
                         /\ Lookup(map, base, names, names[i]) = i - 1

\* a compiled model in which a named entity of a second kind was pushed off
\* its hashed slot by an earlier entity of the same kind
C30_Witness ==
  /\ model.valid
  /\ \E k \in 2 .. Len(KindNames(model)) :
       LET names == KindNames(model)[k]
           base == SegmentBase(KindNames(model), k)
           cap == mjLOAD_MULTIPLE * Len(names)
       IN \E i \in 1 .. Len(names) :
            /\ names[i] # ""
            /\ model.names_map[base + mj_hashdjb2(names[i], cap) + 1]
                 \notin {-1, i - 1}
            /\ Lookup(model.names_map, base, names, names[i]) = i - 1

====
